---- MODULE Spec2Model ----
(***************************************************************************)
(* x402 payment protocol: proof codec (src/src/client.js,                  *)
(* src/src/middleware.js), the server verification pipeline of             *)
(* createPaymentMiddleware (src/src/middleware.js), the routes-based       *)
(* standalone middleware (src/unnamed/part_000) and the PaymentVerifier    *)
(* contract (src/contracts/PaymentVerifier.sol).                           *)
(***************************************************************************)
EXTENDS Integers, Sequences, FiniteSets, TLC

\* ---------------------------------------------------------------- bounds
\* a proof that was already granted this often is not presented again
MaxGrants == 2
\* the largest nonce of the proofs the contract is called with on its own
MaxNonce == 1
\* unix time (seconds) the proofs of the model are dated around
Epoch == 2000

\* ------------------------------------------------------ program constants
FreshnessPast == 300
FutureSkew == 60
Retention == 600000
UsdcDecimals == 6
ContractExpiry == 300
ContractSkew == 60

\* ----------------------------------------------------------- JS strings
\* An address string: the account it names and the letter case it is
\* written in.  String.prototype.toLowerCase keeps the account.
Accounts == {"merchant", "other", "payer", "stranger",
             "usdc_base_sepolia", "usdc_base", "usdc_optimism_sepolia", "zero"}
AddrForms == {"checksum", "lower"}
Addr(who, form) == [who |-> who, form |-> form]
ToLowerCase(a) == [a EXCEPT !.form = "lower"]
\* ethers.getAddress: the checksummed form of the same account
GetAddress(a) == [a EXCEPT !.form = "checksum"]

\* A decimal string: integer digits and fractional digits ("0.001" is
\* <<0>> . <<0,0,1>>, "1000" is <<1,0,0,0>> with no fraction).
Dec(ip, fp) == [ip |-> ip, fp |-> fp]
RECURSIVE DigitsToInt(_)
DigitsToInt(ds) ==
    IF Len(ds) = 0 THEN 0
    ELSE 10 * DigitsToInt(SubSeq(ds, 1, Len(ds) - 1)) + ds[Len(ds)]
RECURSIVE IntToDigits(_)
IntToDigits(n) ==
    IF n < 10 THEN <<n>> ELSE Append(IntToDigits(n \div 10), n % 10)
RECURSIVE Pow10(_)
Pow10(k) == IF k = 0 THEN 1 ELSE 10 * Pow10(k - 1)
\* BigInt.prototype.toString
BigIntToString(n) == Dec(IntToDigits(n), <<>>)
\* ethers getBigInt on a string: integer literals only, anything else throws
IsIntegerString(d) == Len(d.ip) > 0 /\ Len(d.fp) = 0
GetBigInt(d) == DigitsToInt(d.ip)
\* ethers.parseUnits(value, decimals)
ParseUnits(d, decimals) ==
    DigitsToInt(d.ip) * Pow10(decimals)
        + DigitsToInt(d.fp) * Pow10(decimals - Len(d.fp))

\* An integer too wide for machine arithmetic (a wei amount) is kept as its
\* decimal digits, without leading zeros.
RECURSIVE StripZeros(_)
StripZeros(ds) ==
    IF Len(ds) > 1 /\ ds[1] = 0 THEN StripZeros(Tail(ds)) ELSE ds
Zeros(k) == [i \in 1..k |-> 0]
\* ethers.parseUnits(value, decimals) as digits
ParseUnitsDigits(d, decimals) ==
    StripZeros(d.ip \o d.fp \o Zeros(decimals - Len(d.fp)))
\* a < b on such integers
RECURSIVE DigitsLess(_, _)
DigitsLess(a, b) ==
    IF Len(a) # Len(b) THEN Len(a) < Len(b)
    ELSE IF Len(a) = 0 THEN FALSE
    ELSE IF a[1] # b[1] THEN a[1] < b[1]
    ELSE DigitsLess(Tail(a), Tail(b))

\* ------------------------------------------------------------- signatures
Keys == {"payer", "stranger"}
\* the canonical hash, ethers.solidityPackedKeccak256 over
\* (bytes32, address, address, uint256, uint256, uint256): the packed bytes
\* hold the accounts and the integer values, not their spelling
PackedHash(txHash, token, recipient, amount, timestamp, nonce) ==
    [txHash |-> txHash, token |-> token.who, recipient |-> recipient.who,
     amount |-> amount, timestamp |-> timestamp, nonce |-> nonce]
\* signer.signMessage(getBytes(hash))
SignMessage(key, hash) == [key |-> key, over |-> hash]
\* ethers.recoverAddress(hashMessage(hash), signature): the signing key's
\* address when the signature is over this hash, an unrelated address otherwise
NoAccount == "nobody"
RecoverAddress(hash, sig) ==
    IF sig.over = hash THEN Addr(sig.key, "checksum")
    ELSE Addr(NoAccount, "checksum")

\* ------------------------------------------------------ client: challenge
\* The (chain, token) table of PaymentChallenge.getTokenAddress; null for a
\* pair that is not listed.
NullAddr == Addr("null", "lower")
TokenTable(chain, token) ==
    CASE chain = "base_sepolia" /\ token = "usdc" -> Addr("usdc_base_sepolia", "checksum")
      [] chain = "base_sepolia" /\ token = "mock_usdc" -> Addr("zero", "lower")
      [] chain = "base" /\ token = "usdc" -> Addr("usdc_base", "checksum")
      [] chain = "optimism_sepolia" /\ token = "usdc" -> Addr("usdc_optimism_sepolia", "checksum")
      [] OTHER -> NullAddr
getTokenAddress(challenge) ==
    LET address == TokenTable(challenge.chain, challenge.token)
    IN IF address = NullAddr THEN NullAddr ELSE GetAddress(address)
\* a conversion that drops the fractional digits
getAmountWeiTruncated(challenge) ==
    DigitsToInt(challenge.amount.ip) * Pow10(UsdcDecimals)
getAmountWei(challenge) == ParseUnits(challenge.amount, UsdcDecimals)

\* ------------------------------------------------- challenge strings
\* A challenge string 'token:chain:recipient?amount=X&nonce=Y': the parts of
\* the text before '?' as split(':') gives them, and the query parameters
\* that are present.  A part is a string with its letter case, like an
\* address string.
Str(text, form) == [who |-> text, form |-> form]
ChallengeString(path, hasAmount, amount, hasNonce, nonce) ==
    [path |-> path, hasAmount |-> hasAmount, amount |-> amount,
     hasNonce |-> hasNonce, nonce |-> nonce]
\* ethers.getAddress accepts an address in lower case or with its checksum
\* and throws on anything else (a wrong checksum, a text that is no address)
IsAddress(a) == a.who \in Accounts /\ a.form \in AddrForms
\* a destructured part that is missing reads as undefined
Undefined == Str("undefined", "undefined")
PartAt(path, i) == IF i <= Len(path) THEN path[i] ELSE Undefined
NoChallengeValue ==
    [token |-> "", chain |-> "", recipient |-> Undefined,
     amount |-> Dec(<<>>, <<>>), hasNonce |-> FALSE, nonce |-> 0]
Parsed(challenge) == [ok |-> TRUE, error |-> "", challenge |-> challenge]
ParseThrew(error) == [ok |-> FALSE, error |-> error, challenge |-> NoChallengeValue]
DefaultAmount == Dec(<<0>>, <<0, 0, 1>>)
\* PaymentChallenge.parse (client.js): the challenge, or the error it throws
parse(text) ==
    LET token == PartAt(text.path, 1)
        chain == PartAt(text.path, 2)
        recipient == PartAt(text.path, 3)
    IN IF token = Undefined \/ chain = Undefined
       THEN ParseThrew("TypeError")
       ELSE Parsed([token |-> ToLowerCase(token).who,
                    chain |-> ToLowerCase(chain).who,
                    recipient |-> IF IsAddress(recipient) THEN GetAddress(recipient)
                                  ELSE recipient,
                    amount |-> IF text.hasAmount /\ text.amount # Dec(<<>>, <<>>)
                               THEN text.amount ELSE DefaultAmount,
                    hasNonce |-> text.hasNonce,
                    nonce |-> IF text.hasNonce THEN text.nonce ELSE 0])

\* ---------------------------------------------------------- proof objects
Required == <<"txHash", "token", "recipient", "amount", "timestamp",
              "nonce", "signature">>
RequiredSet == {Required[i] : i \in 1..Len(Required)}
ZeroHash == PackedHash("", NullAddr, NullAddr, 0, 0, 0)
NoSignature == [key |-> "none", over |-> ZeroHash]
\* A JS proof object: the properties it has (keys) and their values; a
\* property that is not in keys reads as undefined.
ProofObject(keys, txHash, token, recipient, amount, timestamp, nonce, signature) ==
    [keys |-> keys,
     txHash |-> IF "txHash" \in keys THEN txHash ELSE "",
     token |-> IF "token" \in keys THEN token ELSE NullAddr,
     recipient |-> IF "recipient" \in keys THEN recipient ELSE NullAddr,
     amount |-> IF "amount" \in keys THEN amount ELSE Dec(<<>>, <<>>),
     timestamp |-> IF "timestamp" \in keys THEN timestamp ELSE 0,
     nonce |-> IF "nonce" \in keys THEN nonce ELSE 0,
     signature |-> IF "signature" \in keys THEN signature ELSE NoSignature]

\* PaymentProof.getProofHash
getProofHash(txHash, challenge, nonce, timestamp) ==
    PackedHash(txHash, getTokenAddress(challenge), challenge.recipient,
               getAmountWei(challenge), timestamp, nonce)
\* PaymentProof.sign
sign(txHash, challenge, nonce, timestamp, key) ==
    SignMessage(key, getProofHash(txHash, challenge, nonce, timestamp))

\* JSON.stringify of a proof object: a text with one member per property,
\* numbers written as digit literals, strings quoted as they are.
JsonStringify(obj) ==
    [json |-> TRUE, keys |-> obj.keys,
     txHash |-> obj.txHash, token |-> obj.token, recipient |-> obj.recipient,
     amount |-> obj.amount,
     timestamp |-> IntToDigits(obj.timestamp),
     nonce |-> IntToDigits(obj.nonce),
     signature |-> obj.signature]
\* a text that is not JSON
NotJson == [JsonStringify(ProofObject({}, "", NullAddr, NullAddr, Dec(<<>>, <<>>), 0, 0, NoSignature))
               EXCEPT !.json = FALSE]
\* JSON.parse of such a text (the caller checks text.json first)
JsonParse(text) ==
    ProofObject(text.keys, text.txHash, text.token, text.recipient, text.amount,
                DigitsToInt(text.timestamp), DigitsToInt(text.nonce),
                text.signature)
\* Buffer.from(text).toString('base64') and Buffer.from(h, 'base64').toString()
ToBase64(text) == [b64 |-> text]
FromBase64(header) == header.b64

\* PaymentProof.encode
encode(txHash, challenge, nonce, timestamp, signature) ==
    LET proof == ProofObject(RequiredSet, txHash, getTokenAddress(challenge),
                             challenge.recipient,
                             BigIntToString(getAmountWei(challenge)),
                             timestamp, nonce, signature)
    IN ToBase64(JsonStringify(proof))

\* ------------------------------------------------- server: decodeProof
\* !proof[field]: undefined, null, 0 and the empty string are falsy
Falsy(proof, field) ==
    \/ field \notin proof.keys
    \/ field = "txHash" /\ proof.txHash = ""
    \/ field = "token" /\ proof.token = NullAddr
    \/ field = "recipient" /\ proof.recipient = NullAddr
    \/ field = "amount" /\ proof.amount = Dec(<<>>, <<>>)
    \/ field = "timestamp" /\ proof.timestamp = 0
    \/ field = "nonce" /\ proof.nonce = 0
    \/ field = "signature" /\ proof.signature = NoSignature
MissingFields(proof) == {i \in 1..Len(Required) : Falsy(proof, Required[i])}
FirstMissing(proof) ==
    Required[CHOOSE i \in MissingFields(proof) :
                 \A j \in MissingFields(proof) : i <= j]
decodeProofUnchecked(proofHeader) ==
    LET decoded == FromBase64(proofHeader)
    IN IF ~decoded.json
       THEN [ok |-> FALSE, error |-> "Invalid proof format", detail |-> "parse",
             proof |-> JsonParse(NotJson)]
       ELSE [ok |-> TRUE, error |-> "", detail |-> "", proof |-> JsonParse(decoded)]
\* decodeProof: the proof, or the thrown 'Invalid proof format: ...' error
decodeProof(proofHeader) ==
    LET decoded == FromBase64(proofHeader)
    IN IF ~decoded.json
       THEN [ok |-> FALSE, error |-> "Invalid proof format", detail |-> "parse",
             proof |-> JsonParse(NotJson)]
       ELSE LET proof == JsonParse(decoded)
            IN IF MissingFields(proof) # {}
               THEN [ok |-> FALSE, error |-> "Invalid proof format",
                     detail |-> FirstMissing(proof), proof |-> proof]
               ELSE [ok |-> TRUE, error |-> "", detail |-> "", proof |-> proof]

\* ------------------------------------------- server: verifyProofSignature
\* solidityPackedKeccak256 throws unless amount is an integer literal
CanHash(proof) == IsIntegerString(proof.amount)
ProofHashOf(proof) ==
    PackedHash(proof.txHash, proof.token, proof.recipient,
               GetBigInt(proof.amount), proof.timestamp, proof.nonce)
\* a recovery that trusts the signature and does not rebuild the hash
verifyProofSignatureUnbound(proof) == Addr(proof.signature.key, "checksum")
verifyProofSignature(proof) == RecoverAddress(ProofHashOf(proof), proof.signature)

\* ------------------------------------- server: verifyPaymentTransaction
EtherDecimals == 18
TransferSelector == "0xa9059cbb"
ApproveSelector == "0x095ea7b3"
\* What the provider answers for a transaction hash: getTransaction gives
\* null (found = FALSE) or the transaction (blockNumber 0: no block number
\* yet), getTransactionReceipt its status; threw: the call failed instead.
NoTx == [threw |-> FALSE, found |-> FALSE, blockNumber |-> 0, status |-> 0,
         to |-> NullAddr, selector |-> "", argTo |-> NullAddr, argAmount |-> 0,
         value |-> <<0>>]
ProviderError == [NoTx EXCEPT !.threw = TRUE]
TransferTx(blockNumber, status, token, to, amount) ==
    [threw |-> FALSE, found |-> TRUE, blockNumber |-> blockNumber,
     status |-> status, to |-> token, selector |-> TransferSelector,
     argTo |-> to, argAmount |-> amount, value |-> <<0>>]
getTransaction(txHash) ==
    IF txHash = "tx1"
    THEN TransferTx(7, 1, Addr("usdc_base_sepolia", "checksum"),
                    Addr("merchant", "checksum"),
                    ParseUnits(Dec(<<0>>, <<0, 0, 1>>), UsdcDecimals))
    ELSE NoTx
\* what a verification returns (ok) and the message it logs or throws
Verified(branch) == [ok |-> TRUE, error |-> "", branch |-> branch]
Failed(error, branch) == [ok |-> FALSE, error |-> error, branch |-> branch]
\* verifyPaymentTransaction of src/src/middleware.js on the provider's answer
verifyPaymentTransactionOn(tx, proof) ==
    IF tx.threw THEN Failed("Error verifying transaction", "")
    ELSE IF ~tx.found THEN Failed("Transaction not found", "")
    ELSE IF tx.blockNumber = 0 THEN Failed("Transaction not yet confirmed", "")
    ELSE IF tx.status # 1 THEN Failed("Transaction failed", "")
    ELSE IF tx.selector = TransferSelector
    THEN IF ToLowerCase(tx.argTo) # ToLowerCase(proof.recipient)
         THEN Failed("Recipient mismatch in transaction", "")
         ELSE IF BigIntToString(tx.argAmount) # proof.amount
         THEN Failed("Amount mismatch in transaction", "")
         ELSE Verified("")
    ELSE Verified("")
verifyPaymentTransaction(proof) ==
    verifyPaymentTransactionOn(getTransaction(proof.txHash), proof).ok

\* --------------------------------- standalone middleware (part_000)
ZeroAddress == Addr("zero", "lower")
\* parseChallenge: a missing nonce becomes Date.now()
Standalone_parseChallenge(text, dateNow) ==
    LET token == PartAt(text.path, 1)
        chain == PartAt(text.path, 2)
        recipient == PartAt(text.path, 3)
    IN IF token = Undefined \/ chain = Undefined
       THEN ParseThrew("TypeError")
       ELSE IF ~IsAddress(recipient) THEN ParseThrew("invalid address")
       ELSE Parsed([token |-> ToLowerCase(token).who,
                    chain |-> ToLowerCase(chain).who,
                    recipient |-> GetAddress(recipient),
                    amount |-> IF text.hasAmount /\ text.amount # Dec(<<>>, <<>>)
                               THEN text.amount ELSE DefaultAmount,
                    hasNonce |-> TRUE,
                    nonce |-> IF text.hasNonce THEN text.nonce ELSE dateNow])
Standalone_getTokenAddress(chain, token) ==
    CASE chain = "base_sepolia" /\ token = "usdc" -> Addr("usdc_base_sepolia", "checksum")
      [] chain = "base" /\ token = "usdc" -> Addr("usdc_base", "checksum")
      [] OTHER -> NullAddr
\* verifyPaymentTransaction of part_000: true, or the error it throws
Standalone_verifyPaymentTransaction(tx, expectedRecipient, expectedAmount, tokenAddress) ==
    IF tx.threw THEN Failed("provider error", "")
    ELSE IF ~tx.found THEN Failed("Transaction not found", "")
    ELSE IF tokenAddress = NullAddr \/ tokenAddress = ZeroAddress
    THEN IF ToLowerCase(tx.to) # ToLowerCase(expectedRecipient)
         THEN Failed("Transaction recipient mismatch", "native")
         ELSE IF DigitsLess(tx.value, ParseUnitsDigits(expectedAmount, EtherDecimals))
         THEN Failed("Transaction amount insufficient", "native")
         ELSE Verified("native")
    ELSE IF ToLowerCase(tx.to) # ToLowerCase(tokenAddress)
    THEN Failed("Transaction not to token contract", "erc20")
    ELSE IF tx.selector = TransferSelector
    THEN IF ToLowerCase(tx.argTo) # ToLowerCase(expectedRecipient)
         THEN Failed("Invalid token transfer transaction", "erc20")
         ELSE IF tx.argAmount < ParseUnits(expectedAmount, UsdcDecimals)
         THEN Failed("Invalid token transfer transaction", "erc20")
         ELSE Verified("erc20")
    ELSE IF tx.selector = ApproveSelector
    THEN Failed("Transaction is not a valid transfer", "erc20")
    ELSE Failed("Invalid token transfer transaction", "erc20")

\* --------------------------------------------- PaymentVerifier contract
\* verifyPaymentProof: TRUE, or a revert (FALSE here; the view never
\* returns false).  used and nonceOf are usedProofs and nonces, blockTime
\* is block.timestamp.
NonceAt(nonceOf, who) == IF who \in DOMAIN nonceOf THEN nonceOf[who] ELSE 0
RevertReasonIgnoresUsed(used, nonceOf, blockTime, proof) ==
    LET proofHash == ProofHashOf(proof)
        signer == RecoverAddress(proofHash, proof.signature)
    IN IF ~(blockTime <= proof.timestamp + ContractExpiry) THEN "Proof expired"
       ELSE IF ~(proof.timestamp <= blockTime + ContractSkew)
       THEN "Proof timestamp too far in future"
       ELSE IF NonceAt(nonceOf, signer.who) # proof.nonce THEN "Invalid nonce"
       ELSE ""
\* the message of the require that fails first, "" when none does
RevertReason(used, nonceOf, blockTime, proof) ==
    LET proofHash == ProofHashOf(proof)
        signer == RecoverAddress(proofHash, proof.signature)
    IN IF ~(blockTime <= proof.timestamp + ContractExpiry) THEN "Proof expired"
       ELSE IF ~(proof.timestamp <= blockTime + ContractSkew)
       THEN "Proof timestamp too far in future"
       ELSE IF proofHash \in used THEN "Proof already used"
       ELSE IF NonceAt(nonceOf, signer.who) # proof.nonce THEN "Invalid nonce"
       ELSE ""
verifyPaymentProof(used, nonceOf, blockTime, proof) ==
    RevertReason(used, nonceOf, blockTime, proof) = ""
\* await verifierContract.verifyPaymentProof(...): the value it resolves to,
\* or the error it rejects with (a revert, or the node cannot be reached)
Resolved(value) == [threw |-> FALSE, value |-> value, message |-> ""]
Rejected(message) == [threw |-> TRUE, value |-> FALSE, message |-> message]
ContractCall(reachable, used, nonceOf, blockTime, proof) ==
    IF ~reachable THEN Rejected("could not reach the node")
    ELSE IF RevertReason(used, nonceOf, blockTime, proof) # ""
    THEN Rejected(RevertReason(used, nonceOf, blockTime, proof))
    ELSE Resolved(TRUE)
\* verifyProofOnChain: the resolved value; a rejection is caught, logged and
\* reported as false
verifyProofOnChainUncaught(outcome) == outcome
verifyProofOnChainOn(outcome) ==
    IF outcome.threw THEN Resolved(FALSE) ELSE Resolved(outcome.value)
verifyProofOnChain(used, nonceOf, blockTime, proof) ==
    verifyProofOnChainOn(ContractCall(TRUE, used, nonceOf, blockTime, proof)).value
\* the state markProofUsed commits when its require passes
UsedAfterMark(used, proof) == used \cup {ProofHashOf(proof)}
NoncesAfterMarkSkips(nonceOf, proof) ==
    LET payer == RecoverAddress(ProofHashOf(proof), proof.signature).who
    IN [w \in DOMAIN nonceOf \cup {payer} |->
          IF w = payer THEN NonceAt(nonceOf, payer) + 2 ELSE nonceOf[w]]
NoncesAfterMark(nonceOf, proof) ==
    LET payer == RecoverAddress(ProofHashOf(proof), proof.signature).who
    IN [w \in DOMAIN nonceOf \cup {payer} |->
          IF w = payer THEN NonceAt(nonceOf, payer) + 1 ELSE nonceOf[w]]

\* ------------------------------------------ PaymentMiddlewareConfig
isProofUsedInCache(cache, proofHash) == proofHash \in DOMAIN cache
\* a sweep that also deletes an entry exactly as old as the retention
markProofInCacheSweepsAtCutoff(cache, proofHash, dateNow) ==
    LET set == [h \in DOMAIN cache \cup {proofHash} |->
                  IF h = proofHash THEN dateNow ELSE cache[h]]
        cutoff == dateNow - Retention
        kept == {h \in DOMAIN set : ~(set[h] <= cutoff)}
    IN [h \in kept |-> set[h]]
markProofInCacheSweepsNewer(cache, proofHash, dateNow) ==
    LET set == [h \in DOMAIN cache \cup {proofHash} |->
                  IF h = proofHash THEN dateNow ELSE cache[h]]
        cutoff == dateNow - Retention
        kept == {h \in DOMAIN set : ~(set[h] > cutoff)}
    IN [h \in kept |-> set[h]]
\* markProofInCache: record the hash at Date.now(), then delete every entry
\* older than the retention cutoff
markProofInCache(cache, proofHash, dateNow) ==
    LET set == [h \in DOMAIN cache \cup {proofHash} |->
                  IF h = proofHash THEN dateNow ELSE cache[h]]
        cutoff == dateNow - Retention
        kept == {h \in DOMAIN set : ~(set[h] < cutoff)}
    IN [h \in kept |-> set[h]]

\* ------------------------------------------------------------ the inputs
\* A parsed PaymentChallenge; nonce is null (hasNonce = FALSE) when the
\* challenge string has no nonce parameter.
PaymentChallenge(recipient, amount, hasNonce, nonce) ==
    [token |-> "usdc", chain |-> "base_sepolia",
     recipient |-> GetAddress(recipient), amount |-> amount,
     hasNonce |-> hasNonce, nonce |-> IF hasNonce THEN nonce ELSE 0]
\* 'usdc:base_sepolia:<merchant>?amount=0.001', the challenge of the paid route
Challenge ==
    PaymentChallenge(Addr("merchant", "lower"), Dec(<<0>>, <<0, 0, 1>>), FALSE, 0)
\* the same with '&nonce=n'
ChallengeNonce(n) == [Challenge EXCEPT !.hasNonce = TRUE, !.nonce = n]
ChallengeTo(who, amount) ==
    PaymentChallenge(Addr(who, "lower"), amount, TRUE, 1)
TA == Epoch
TB == Epoch + FreshnessPast + FutureSkew
\* what PaymentProof.sign and encode produce for a payment
ClientHeader(txHash, challenge, nonce, timestamp, key) ==
    encode(txHash, challenge, nonce, timestamp,
           sign(txHash, challenge, nonce, timestamp, key))
\* X402Client.pay with no verifierAddress: the nonce of the challenge, or 0;
\* txHash is the transfer executePayment made, timestamp the time of signing
pay(challenge, txHash, timestamp, key) ==
    LET nonce == IF challenge.hasNonce THEN challenge.nonce ELSE 0
    IN ClientHeader(txHash, challenge, nonce, timestamp, key)
\* the same header with one property changed after signing
WithText(header, text) == [header EXCEPT !.b64 = text]
\* the X-Payment-Proof values of the model
HeaderA == pay(ChallengeNonce(1), "tx1", TA, "payer")
HeaderB == pay(ChallengeNonce(2), "tx1", TB, "payer")
HeaderNonce0 == pay(Challenge, "tx1", TA, "payer")
HeaderForged ==
    WithText(HeaderA, [HeaderA.b64 EXCEPT !.signature = HeaderB.b64.signature])
HeaderOther ==
    pay(ChallengeTo("other", Dec(<<0>>, <<0, 0, 1>>)), "tx1", TA, "payer")
HeaderSmall ==
    pay(ChallengeTo("merchant", Dec(<<0>>, <<0, 0, 0, 0, 0, 1>>)), "tx1", TA, "payer")
HeaderNoSig ==
    WithText(HeaderA, [HeaderA.b64 EXCEPT !.keys = RequiredSet \ {"signature"}])
HeaderFraction ==
    WithText(HeaderA, [HeaderA.b64 EXCEPT !.amount = Dec(<<0>>, <<0, 0, 1>>)])
HeaderGarbage == ToBase64(NotJson)
Headers == <<HeaderA, HeaderB, HeaderNonce0, HeaderForged, HeaderOther,
             HeaderSmall, HeaderNoSig, HeaderFraction, HeaderGarbage>>
\* a request: its path and its X-Payment-Proof header (0: none, else an
\* index into Headers)
Paths == {"/paid", "/free"}
Requests ==
    [path : {"/paid"}, hdr : 0..Len(Headers)] \cup [path : {"/free"}, hdr : 0..1]
NoRequest == [path |-> "", hdr |-> 0]
\* the routes option: one paid route
getChallengeForRoute(path) == path = "/paid"

\* Date.now() values (ms) the clock passes through
ClockValues ==
    {(TA - FutureSkew - 1) * 1000 + 999, (TA - FutureSkew) * 1000,
     (TA + FreshnessPast) * 1000 + 999, (TA + FreshnessPast + 1) * 1000,
     (TA - FutureSkew) * 1000 + Retention,
     (TA - FutureSkew) * 1000 + Retention + 1}
ClockStart == CHOOSE t \in ClockValues : \A u \in ClockValues : t <= u

\* ------------------------------------------------------------- the state
VARIABLES
    cfg,        \* PaymentMiddlewareConfig: the options of the instance
    clock,      \* Date.now()
    proofCache, \* config.proofCache: proof hash -> insertion time
    req,        \* per request in flight: where its handler stands
    last,       \* the request answered last and its response
    granted,    \* proof hash -> number of requests granted with it
    usedProofs, \* PaymentVerifier.usedProofs
    nonces,     \* PaymentVerifier.nonces
    codec,      \* a proof codec round trip: its input and its result
    call        \* a call made on its own: its arguments and its result

vars == <<cfg, clock, proofCache, req, last, granted, usedProofs, nonces, codec,
          call>>

\* the requests that can be in flight at the same time
Slots == {"r1", "r2"}
NoResponse == [status |-> 0, error |-> "", message |-> ""]
NextCalled == [status |-> 200, error |-> "", message |-> "next"]
Json(status, error, message) ==
    [status |-> status, error |-> error, message |-> message]
IdleSlot == [pc |-> "idle", q |-> NoRequest]

GrantCount(h) == IF h \in DOMAIN granted THEN granted[h] ELSE 0
HeaderOf(q) == Headers[q.hdr]
Decoded == [i \in 1..Len(Headers) |-> decodeProof(Headers[i])]
ProofOf(q) == Decoded[q.hdr].proof
HashOf(q) == ProofHashOf(ProofOf(q))
Now == clock \div 1000

\* the options the instance is created with (an option that is left out
\* defaults to true, a collaborator that is left out is undefined)
Options(verifyTransaction, provider, verifyOnChain, contract, markUsed, signer) ==
    [verifyTransaction |-> verifyTransaction, provider |-> provider,
     verifyOnChain |-> verifyOnChain, verifierContract |-> contract,
     markUsed |-> markUsed, verifierSigner |-> signer]
Configs ==
    {Options(TRUE, TRUE, TRUE, TRUE, TRUE, TRUE),
     Options(TRUE, TRUE, TRUE, TRUE, FALSE, TRUE),
     Options(TRUE, TRUE, FALSE, FALSE, TRUE, FALSE),
     Options(TRUE, FALSE, TRUE, FALSE, TRUE, FALSE),
     Options(FALSE, TRUE, TRUE, FALSE, TRUE, FALSE)}

NoCodec == [phase |-> "none"]
NoCall == [op |-> "none"]
Init ==
    /\ cfg \in Configs
    /\ clock = ClockStart
    /\ proofCache = << >>
    /\ req = [r \in Slots |-> IdleSlot]
    /\ last = [q |-> NoRequest, out |-> NoResponse]
    /\ granted = << >>
    /\ usedProofs = {}
    /\ nonces = << >>
    /\ codec = NoCodec
    /\ call = NoCall

\* ------------------------------------------------- paymentMiddleware
\* a transaction step that runs without a provider
TxStepUngated == cfg.verifyTransaction
TxStep == cfg.verifyTransaction /\ cfg.provider
ChainStep == cfg.verifyOnChain /\ cfg.verifierContract
MarkStep == cfg.markUsed /\ cfg.verifierSigner
\* a handler that marks the proof on the chain whenever it was attested
StageAfterAlwaysMarks(stage) ==
    CASE stage = "signature" ->
           IF TxStep THEN "awaitTx" ELSE IF ChainStep THEN "awaitChain" ELSE "grant"
      [] stage = "transaction" -> IF ChainStep THEN "awaitChain" ELSE "grant"
      [] stage = "onchain" -> "awaitMark"
      [] OTHER -> "grant"
\* where the handler goes after a stage that passed
StageAfter(stage) ==
    CASE stage = "signature" ->
           IF TxStep THEN "awaitTx" ELSE IF ChainStep THEN "awaitChain" ELSE "grant"
      [] stage = "transaction" -> IF ChainStep THEN "awaitChain" ELSE "grant"
      [] stage = "onchain" -> IF MarkStep THEN "awaitMark" ELSE "grant"
      [] OTHER -> "grant"

\* a handler that also records the proof it denies
RespondCaching(r, q, out) ==
    /\ req' = [req EXCEPT ![r] = IdleSlot]
    /\ last' = [q |-> q, out |-> out]
    /\ proofCache' = IF q.hdr # 0 /\ Decoded[q.hdr].ok /\ CanHash(ProofOf(q))
                         /\ out.status = 403
                      THEN markProofInCache(proofCache, HashOf(q), clock)
                      ELSE proofCache
    /\ UNCHANGED granted
\* the handler answers without calling next(); proofCache is not touched
Respond(r, q, out) ==
    /\ req' = [req EXCEPT ![r] = IdleSlot]
    /\ last' = [q |-> q, out |-> out]
    /\ UNCHANGED <<proofCache, granted>>
\* config.markProofInCache(proofHash); next()
Grant(r, q) ==
    /\ proofCache' = markProofInCache(proofCache, HashOf(q), clock)
    /\ granted' = [h \in DOMAIN granted \cup {HashOf(q)} |->
                     IF h = HashOf(q) THEN GrantCount(h) + 1 ELSE granted[h]]
    /\ req' = [req EXCEPT ![r] = IdleSlot]
    /\ last' = [q |-> q, out |-> NextCalled]
\* the handler goes on after the stage: to its next await, or to the grant
Proceed(r, q, stage) ==
    IF StageAfter(stage) = "grant" THEN Grant(r, q)
    ELSE /\ req' = [req EXCEPT ![r] = [pc |-> StageAfter(stage), q |-> q]]
         /\ UNCHANGED <<proofCache, granted, last>>

\* a proof that was granted MaxGrants times is not presented again
Presentable(q) ==
    (q.hdr # 0 /\ Decoded[q.hdr].ok /\ CanHash(ProofOf(q)))
        => GrantCount(HashOf(q)) < MaxGrants
\* a freshness window longer in the past than the cache keeps an entry
FreshLong(timestamp, now) ==
    ~(timestamp < now - (Retention \div 1000 + FreshnessPast) \/ timestamp > now + FutureSkew)
FreshExclusive(timestamp, now) ==
    ~(timestamp <= now - FreshnessPast \/ timestamp >= now + FutureSkew)
Fresh(timestamp, now) ==
    ~(timestamp < now - FreshnessPast \/ timestamp > now + FutureSkew)

\* A request arrives; the handler runs up to its first await.
Receive(r, q) ==
    /\ req[r].pc = "idle"
    /\ Presentable(q)
    /\ UNCHANGED <<cfg, clock, usedProofs, nonces, codec, call>>
    /\ IF ~getChallengeForRoute(q.path)
       THEN Respond(r, q, NextCalled)
       ELSE IF q.hdr = 0
       THEN Respond(r, q, Json(402, "Payment required",
                     "This endpoint requires payment. Please include X-Payment-Proof header."))
       ELSE IF ~Decoded[q.hdr].ok
       THEN Respond(r, q, Json(403, "Invalid payment proof", Decoded[q.hdr].error))
       ELSE IF ~CanHash(ProofOf(q))
       THEN Respond(r, q, Json(403, "Invalid payment proof", "invalid BigNumberish"))
       ELSE IF isProofUsedInCache(proofCache, HashOf(q))
       THEN Respond(r, q, Json(403, "Payment proof already used",
                     "This payment proof has been used already. Please make a new payment."))
       ELSE IF ~Fresh(ProofOf(q).timestamp, Now)
       THEN Respond(r, q, Json(403, "Payment proof expired or invalid timestamp", ""))
       ELSE Proceed(r, q, "signature")

\* what provider.getTransaction answers for a hash: the chain's answer, or
\* a failure of the call
ProviderReplies(txHash) == {getTransaction(txHash), ProviderError}
\* await verifyPaymentTransaction(proof, config.provider) resolves, the
\* provider having answered tx
AfterTransactionOn(r, tx) ==
    /\ req[r].pc = "awaitTx"
    /\ UNCHANGED <<cfg, clock, usedProofs, nonces, codec, call>>
    /\ IF ~verifyPaymentTransactionOn(tx, ProofOf(req[r].q)).ok
       THEN Respond(r, req[r].q,
                    Json(403, "Payment transaction invalid or not found", ""))
       ELSE Proceed(r, req[r].q, "transaction")
AfterTransaction(r) ==
    /\ req[r].pc = "awaitTx"
    /\ \E tx \in ProviderReplies(ProofOf(req[r].q).txHash) : AfterTransactionOn(r, tx)

\* await verifyProofOnChain(proof, config.verifierContract) resolves, the
\* node being reachable or not
AfterOnChainOnUnchecked(r, reachable) ==
    /\ req[r].pc = "awaitChain"
    /\ UNCHANGED <<cfg, clock, usedProofs, nonces, codec, call>>
    /\ Proceed(r, req[r].q, "onchain")
AfterOnChainOn(r, reachable) ==
    /\ req[r].pc = "awaitChain"
    /\ UNCHANGED <<cfg, clock, usedProofs, nonces, codec, call>>
    /\ IF ~verifyProofOnChainOn(ContractCall(reachable, usedProofs, nonces, Now,
                                             ProofOf(req[r].q))).value
       THEN Respond(r, req[r].q, Json(403, "Payment proof verification failed", ""))
       ELSE Proceed(r, req[r].q, "onchain")
AfterOnChain(r) == \E reachable \in BOOLEAN : AfterOnChainOn(r, reachable)

\* await markProofUsed(proof, ...) resolves: the contract commits, or the
\* call fails (a revert, or the node cannot be reached) and the failure is
\* logged; the handler goes on either way
AfterMarkUsedOnStrict(r, reachable) ==
    /\ req[r].pc = "awaitMark"
    /\ UNCHANGED <<cfg, clock, codec, call>>
    /\ IF reachable /\ verifyPaymentProof(usedProofs, nonces, Now, ProofOf(req[r].q))
       THEN /\ usedProofs' = UsedAfterMark(usedProofs, ProofOf(req[r].q))
            /\ nonces' = NoncesAfterMark(nonces, ProofOf(req[r].q))
            /\ Proceed(r, req[r].q, "markUsed")
       ELSE /\ UNCHANGED <<usedProofs, nonces>>
            /\ Respond(r, req[r].q, Json(403, "Payment proof verification failed", ""))
AfterMarkUsedOn(r, reachable) ==
    /\ req[r].pc = "awaitMark"
    /\ UNCHANGED <<cfg, clock, codec, call>>
    /\ IF reachable /\ verifyPaymentProof(usedProofs, nonces, Now, ProofOf(req[r].q))
       THEN /\ usedProofs' = UsedAfterMark(usedProofs, ProofOf(req[r].q))
            /\ nonces' = NoncesAfterMark(nonces, ProofOf(req[r].q))
       ELSE UNCHANGED <<usedProofs, nonces>>
    /\ Proceed(r, req[r].q, "markUsed")
AfterMarkUsed(r) == \E reachable \in BOOLEAN : AfterMarkUsedOn(r, reachable)

\* Anyone calls PaymentVerifier.markProofUsed directly with a signed proof.
DirectProofs == {[decodeProof(HeaderA).proof EXCEPT
                    !.txHash = "tx0", !.nonce = 0,
                    !.signature = sign("tx0", Challenge, 0, TA, "payer")]}
markProofUsed(proof) ==
    /\ verifyPaymentProof(usedProofs, nonces, Now, proof)
    /\ usedProofs' = UsedAfterMark(usedProofs, proof)
    /\ nonces' = NoncesAfterMark(nonces, proof)
    /\ UNCHANGED <<cfg, clock, proofCache, req, last, granted, codec, call>>

\* time passes
Tick ==
    /\ \E t \in ClockValues : t > clock /\ clock' = t
    /\ UNCHANGED <<cfg, proofCache, req, last, granted, usedProofs, nonces, codec,
                   call>>

Next ==
    \/ \E r \in Slots, q \in Requests : Receive(r, q)
    \/ \E r \in Slots : AfterTransaction(r)
    \/ \E r \in Slots : AfterOnChain(r)
    \/ \E r \in Slots : AfterMarkUsed(r)
    \/ \E proof \in DirectProofs : markProofUsed(proof)
    \/ Tick

Spec == Init /\ [][Next]_vars

\* Requests handled one after another: a request arrives only when no
\* handler is in flight.
NoneInFlight == \A r \in Slots : req[r].pc = "idle"
ReceiveSeq(r, q) == NoneInFlight /\ Receive(r, q)
NextSeq ==
    \/ \E r \in Slots, q \in Requests : ReceiveSeq(r, q)
    \/ \E r \in Slots : AfterTransaction(r)
    \/ \E r \in Slots : AfterOnChain(r)
    \/ \E r \in Slots : AfterMarkUsed(r)
    \/ \E proof \in DirectProofs : markProofUsed(proof)
    \/ Tick
SpecSeq == Init /\ [][NextSeq]_vars

\* The server process is started again with the same options:
\* createPaymentMiddleware builds a new PaymentMiddlewareConfig with an empty
\* proofCache, against the same contract; handlers that were in flight are
\* gone.
ChainMarkConfigs ==
    {Options(TRUE, TRUE, TRUE, TRUE, TRUE, TRUE),
     Options(FALSE, FALSE, TRUE, TRUE, TRUE, TRUE)}
InitRestart == Init /\ cfg \in ChainMarkConfigs
Restart ==
    /\ proofCache' = << >>
    /\ req' = [r \in Slots |-> IdleSlot]
    /\ UNCHANGED <<cfg, clock, last, granted, usedProofs, nonces, codec, call>>
NextRestart ==
    \/ \E r \in Slots, q \in Requests : ReceiveSeq(r, q)
    \/ \E r \in Slots : AfterTransaction(r)
    \/ \E r \in Slots : AfterOnChain(r)
    \/ \E r \in Slots : AfterMarkUsed(r)
    \/ \E proof \in DirectProofs : markProofUsed(proof)
    \/ Tick
    \/ Restart
SpecRestart == InitRestart /\ [][NextRestart]_vars

\* -------------------------------------------------- proof codec round trip
\* PaymentProof.encode followed by decodeProof, on the inputs below.
CodecTxHashes == {"tx1", "tx2"}
CodecNonces == {0, 1, 2}
CodecTimestamps == {0, TA, TB}
CodecChallenges ==
    {ChallengeTo(who, amount) :
        who \in {"merchant", "other"},
        amount \in {Dec(<<0>>, <<0, 0, 1>>), Dec(<<1>>, << >>), Dec(<<2>>, <<5>>),
                    Dec(<<0>>, <<0, 0, 0, 0, 0, 1>>)}}
CodecInputs ==
    [txHash : CodecTxHashes, challenge : CodecChallenges, nonce : CodecNonces,
     timestamp : CodecTimestamps, key : Keys]
InitCodec ==
    /\ cfg = Options(TRUE, TRUE, TRUE, TRUE, TRUE, TRUE)
    /\ clock = ClockStart
    /\ proofCache = << >>
    /\ req = [r \in Slots |-> IdleSlot]
    /\ last = [q |-> NoRequest, out |-> NoResponse]
    /\ granted = << >>
    /\ usedProofs = {}
    /\ nonces = << >>
    /\ call = NoCall
    /\ \E in \in CodecInputs :
         codec = [phase |-> "fields", in |-> in, header |-> HeaderGarbage,
                  result |-> decodeProof(HeaderGarbage)]
\* const signature = await proof.sign(wallet); const encoded = await proof.encode(signature)
CodecEncode ==
    /\ codec.phase = "fields"
    /\ codec' = [codec EXCEPT
                   !.phase = "encoded",
                   !.header = ClientHeader(codec.in.txHash, codec.in.challenge,
                                           codec.in.nonce, codec.in.timestamp,
                                           codec.in.key)]
    /\ UNCHANGED <<cfg, clock, proofCache, req, last, granted, usedProofs, nonces,
                   call>>
\* const decoded = decodeProof(encoded)
CodecDecode ==
    /\ codec.phase = "encoded"
    /\ codec' = [codec EXCEPT !.phase = "decoded",
                              !.result = decodeProof(codec.header)]
    /\ UNCHANGED <<cfg, clock, proofCache, req, last, granted, usedProofs, nonces,
                   call>>
NextCodec == CodecEncode \/ CodecDecode
SpecCodec == InitCodec /\ [][NextCodec]_vars

\* ------------------------------------------- transaction verification
\* verifyPaymentTransaction of either middleware, and the client's
\* executePayment, on the transactions and (chain, token) pairs below.
TxTargets == {Addr("usdc_base_sepolia", "checksum"), Addr("usdc_base", "checksum"),
              Addr("merchant", "checksum")}
TxSelectors == {TransferSelector, ApproveSelector, "0x"}
TxDestinations == {Addr("merchant", "lower"), Addr("other", "checksum")}
TxAmounts == {999, 1000, 1001}
TxValues == {<<0>>, ParseUnitsDigits(Dec(<<0>>, <<0, 0, 1>>), EtherDecimals)}
TxReplies ==
    {NoTx, ProviderError} \cup
    [threw : {FALSE}, found : {TRUE}, blockNumber : {0, 7}, status : {0, 1},
     to : TxTargets, selector : TxSelectors, argTo : TxDestinations,
     argAmount : TxAmounts, value : TxValues]
TxPairs == {<<"base_sepolia", "usdc">>, <<"optimism_sepolia", "usdc">>,
            <<"base_sepolia", "dai">>}
TxBalances == {0, 1000}
\* the challenge of the paid route for a (chain, token) pair
ChallengeFor(chain, token) == [Challenge EXCEPT !.chain = chain, !.token = token]
\* the proof the server checks the transaction against
TxProof == decodeProof(HeaderA).proof
\* executePayment without the balance check
executePaymentUnchecked(challenge, balance) ==
    IF getTokenAddress(challenge) = NullAddr
    THEN Failed("Token address not found", "")
    ELSE Verified("transfer")
\* PaymentHandler.executePayment: the transfer it sends, or the error it throws
executePayment(challenge, balance) ==
    IF getTokenAddress(challenge) = NullAddr
    THEN Failed("Token address not found", "")
    ELSE IF balance < getAmountWei(challenge)
    THEN Failed("Insufficient balance", "")
    ELSE Verified("transfer")
InitTx ==
    /\ cfg = Options(TRUE, TRUE, TRUE, TRUE, TRUE, TRUE)
    /\ clock = ClockStart
    /\ proofCache = << >>
    /\ req = [r \in Slots |-> IdleSlot]
    /\ last = [q |-> NoRequest, out |-> NoResponse]
    /\ granted = << >>
    /\ usedProofs = {}
    /\ nonces = << >>
    /\ codec = NoCodec
    /\ \E tx \in TxReplies, pair \in TxPairs, balance \in TxBalances :
         call = [op |-> "input", tx |-> tx, chain |-> pair[1], token |-> pair[2],
                 balance |-> balance, result |-> Failed("", "")]
TxUnchanged ==
    UNCHANGED <<cfg, clock, proofCache, req, last, granted, usedProofs, nonces,
                codec>>
\* const txValid = await verifyPaymentTransaction(proof, config.provider)
TxVerifyMain ==
    /\ call.op = "input"
    /\ call' = [call EXCEPT !.op = "main",
                            !.result = verifyPaymentTransactionOn(call.tx, TxProof)]
    /\ TxUnchanged
\* const tokenAddress = getTokenAddress(challenge.chain, challenge.token);
\* await verifyPaymentTransaction(provider, proof.txHash, challenge.recipient,
\*                               challenge.amount, tokenAddress)
TxVerifyStandalone ==
    /\ call.op = "input"
    /\ call' = [call EXCEPT
                  !.op = "standalone",
                  !.result = Standalone_verifyPaymentTransaction(
                                 call.tx, Challenge.recipient, Challenge.amount,
                                 Standalone_getTokenAddress(call.chain, call.token))]
    /\ TxUnchanged
\* const txHash = await this.paymentHandler.executePayment(challenge)
TxExecutePayment ==
    /\ call.op = "input"
    /\ call' = [call EXCEPT
                  !.op = "executePayment",
                  !.result = executePayment(ChallengeFor(call.chain, call.token),
                                            call.balance)]
    /\ TxUnchanged
NextTx == TxVerifyMain \/ TxVerifyStandalone \/ TxExecutePayment
SpecTx == InitTx /\ [][NextTx]_vars

\* --------------------------------------- PaymentVerifier called on its own
\* Callers present the proofs below to verifyProofOnChain and to the
\* contract's markProofUsed while block time passes.
SignedProof(txHash, nonce, timestamp, key) ==
    ProofObject(RequiredSet, txHash, getTokenAddress(Challenge), Challenge.recipient,
                BigIntToString(getAmountWei(Challenge)), timestamp, nonce,
                sign(txHash, Challenge, nonce, timestamp, key))
ContractProofs ==
    {SignedProof("tx0", nonce, timestamp, key) :
        nonce \in 0..MaxNonce, timestamp \in {TA, TB}, key \in Keys}
    \cup {[SignedProof("tx0", 0, TA, "payer") EXCEPT
             !.signature = sign("tx0", Challenge, 1, TA, "payer")]}
Signers == Keys \cup {NoAccount}
SignerOf(proof) == RecoverAddress(ProofHashOf(proof), proof.signature).who
InitContract ==
    /\ cfg = Options(TRUE, TRUE, TRUE, TRUE, TRUE, TRUE)
    /\ clock = ClockStart
    /\ proofCache = << >>
    /\ req = [r \in Slots |-> IdleSlot]
    /\ last = [q |-> NoRequest, out |-> NoResponse]
    /\ granted = << >>
    /\ usedProofs = {}
    /\ nonces = << >>
    /\ codec = NoCodec
    /\ call = [op |-> "none", proof |-> SignedProof("tx0", 0, TA, "payer"),
               result |-> Resolved(FALSE)]
\* const isValid = await verifyProofOnChain(proof, config.verifierContract)
ContractVerify(proof) ==
    /\ call' = [op |-> "verifyProofOnChain", proof |-> proof,
                result |-> verifyProofOnChainOn(
                               ContractCall(TRUE, usedProofs, nonces, Now, proof))]
    /\ UNCHANGED <<cfg, clock, proofCache, req, last, granted, usedProofs, nonces,
                   codec>>
\* a transaction calls markProofUsed: it commits, or it reverts and writes
\* nothing
ContractMark(proof) ==
    /\ IF verifyPaymentProof(usedProofs, nonces, Now, proof)
       THEN /\ usedProofs' = UsedAfterMark(usedProofs, proof)
            /\ nonces' = NoncesAfterMark(nonces, proof)
            /\ call' = [op |-> "markProofUsed", proof |-> proof,
                        result |-> Resolved(TRUE)]
       ELSE /\ UNCHANGED <<usedProofs, nonces>>
            /\ call' = [op |-> "markProofUsed", proof |-> proof,
                        result |-> Rejected(RevertReason(usedProofs, nonces, Now,
                                                         proof))]
    /\ UNCHANGED <<cfg, clock, proofCache, req, last, granted, codec>>
NextContract ==
    \/ \E proof \in ContractProofs : ContractVerify(proof)
    \/ \E proof \in ContractProofs : ContractMark(proof)
    \/ Tick
SpecContract == InitContract /\ [][NextContract]_vars

\* ------------------------------------------------------ challenge parsing
\* new PaymentChallenge(text) of the client and parseChallenge(text) of the
\* standalone middleware, on the challenge strings below.
ParsePaths ==
    {<<Str("usdc", "lower"), Str("base_sepolia", "lower"), Addr("merchant", "lower")>>,
     <<Str("usdc", "upper"), Str("base_sepolia", "lower"), Addr("merchant", "checksum")>>,
     <<Str("usdc", "lower"), Str("base_sepolia", "lower"), Addr("merchant", "badchecksum")>>,
     <<Str("usdc", "lower"), Str("base_sepolia", "lower"), Str("nowhere", "lower")>>,
     <<Str("usdc", "lower"), Str("base_sepolia", "lower"), Str("", "lower")>>,
     <<Str("usdc", "lower"), Str("", "lower"), Addr("merchant", "lower")>>,
     <<Str("", "lower"), Str("base_sepolia", "lower"), Addr("merchant", "lower")>>,
     <<Str("usdc", "lower"), Str("base_sepolia", "lower")>>,
     <<Str("usdc", "lower")>>,
     <<Str("", "lower")>>,
     <<Str("usdc", "lower"), Str("base_sepolia", "lower"), Addr("merchant", "lower"),
       Str("extra", "lower")>>}
ParseAmounts == {Dec(<<>>, <<>>), Dec(<<0>>, <<0, 0, 1>>), Dec(<<2>>, <<5>>)}
ParseNonces == {0, 7}
ParseTexts ==
    {ChallengeString(path, amount # Dec(<<>>, <<>>), amount, FALSE, 0) :
        path \in ParsePaths, amount \in ParseAmounts}
    \cup {ChallengeString(path, amount # Dec(<<>>, <<>>), amount, TRUE, nonce) :
        path \in ParsePaths, amount \in ParseAmounts, nonce \in ParseNonces}
InitParse ==
    /\ cfg = Options(TRUE, TRUE, TRUE, TRUE, TRUE, TRUE)
    /\ clock = ClockStart
    /\ proofCache = << >>
    /\ req = [r \in Slots |-> IdleSlot]
    /\ last = [q |-> NoRequest, out |-> NoResponse]
    /\ granted = << >>
    /\ usedProofs = {}
    /\ nonces = << >>
    /\ codec = NoCodec
    /\ \E text \in ParseTexts :
         call = [op |-> "input", text |-> text, result |-> ParseThrew("")]
\* const challenge = new PaymentChallenge(challengeString)
ParseClient ==
    /\ call.op = "input"
    /\ call' = [call EXCEPT !.op = "client", !.result = parse(call.text)]
    /\ TxUnchanged
\* const challenge = parseChallenge(challengeString)
ParseStandalone ==
    /\ call.op = "input"
    /\ call' = [call EXCEPT !.op = "standalone",
                            !.result = Standalone_parseChallenge(call.text, clock)]
    /\ TxUnchanged
NextParse == ParseClient \/ ParseStandalone
SpecParse == InitParse /\ [][NextParse]_vars

\* ------------------------------------------------------ client: fetch
\* One call of X402Client.fetch against a server that may answer anything:
\* the requests it sends, the transfers it submits and the proofs it signs.
ClientStatuses == {200, 402, 403, 500}
NoBody == ChallengeString(<< >>, FALSE, Dec(<<>>, <<>>), FALSE, 0)
\* body.challenge || body.payment_required of a 402 response
ClientBodies ==
    {NoBody,
     ChallengeString(<<Str("usdc", "lower"), Str("base_sepolia", "lower"),
                       Addr("merchant", "lower")>>,
                     TRUE, Dec(<<0>>, <<0, 0, 1>>), FALSE, 0),
     ChallengeString(<<Str("usdc", "upper"), Str("base_sepolia", "lower"),
                       Addr("merchant", "checksum")>>,
                     TRUE, Dec(<<2>>, <<5>>), TRUE, 7),
     ChallengeString(<<Str("dai", "lower"), Str("base_sepolia", "lower"),
                       Addr("merchant", "lower")>>,
                     FALSE, Dec(<<>>, <<>>), FALSE, 0),
     ChallengeString(<<Str("usdc", "lower"), Str("mainnet", "lower"),
                       Addr("merchant", "lower")>>,
                     TRUE, Dec(<<0>>, <<0, 0, 1>>), TRUE, 7),
     ChallengeString(<<Str("usdc", "lower"), Str("base_sepolia", "lower")>>,
                     FALSE, Dec(<<>>, <<>>), FALSE, 0),
     ChallengeString(<<Str("usdc", "lower")>>, FALSE, Dec(<<>>, <<>>), FALSE, 0),
     ChallengeString(<<Str("usdc", "lower"), Str("base_sepolia", "lower"),
                       Addr("merchant", "badchecksum")>>,
                     TRUE, Dec(<<0>>, <<0, 0, 1>>), FALSE, 0)}
\* await tokenContract.balanceOf(this.signer.address)
ClientBalances == {0, 999, 1000, 2500000}
\* await tokenContract.transfer(...): the hash of the transaction sent, or
\* "" when the call rejects
ClientTransfers == {"", "tx1", "tx2"}
\* the states of one fetch call
ClientCall(pc, autoRetry, verifier) ==
    [op |-> "fetch", pc |-> pc, autoRetry |-> autoRetry, verifier |-> verifier,
     sent |-> 0, first |-> 0, attached |-> FALSE, transfers |-> 0, proofs |-> 0,
     text |-> NoBody, challenge |-> NoChallengeValue, balance |-> 0,
     payRan |-> FALSE, retry |-> 0, result |-> 0, error |-> "",
     tx |-> "", confirmed |-> FALSE, header |-> HeaderGarbage]
ClientThrew(c, error) == [c EXCEPT !.pc = "threw", !.error = error]
InitClient ==
    /\ cfg = Options(TRUE, TRUE, TRUE, TRUE, TRUE, TRUE)
    /\ clock = ClockStart
    /\ proofCache = << >>
    /\ req = [r \in Slots |-> IdleSlot]
    /\ last = [q |-> NoRequest, out |-> NoResponse]
    /\ granted = << >>
    /\ usedProofs = {}
    /\ nonces = << >>
    /\ codec = NoCodec
    /\ \E autoRetry \in BOOLEAN, verifier \in BOOLEAN :
         call = ClientCall("start", autoRetry, verifier)
\* let response = await fetch(url, fetchOptions): the request goes out
ClientRequest ==
    /\ call.pc = "start"
    /\ call' = [call EXCEPT !.pc = "awaitFirst", !.sent = 1]
    /\ TxUnchanged
\* the first response arrives: returned as it is, or a 402 to pay for
ClientFirstResponse ==
    /\ call.pc = "awaitFirst"
    /\ \E status \in ClientStatuses :
         \E body \in IF status = 402 /\ call.autoRetry THEN ClientBodies ELSE {NoBody} :
           call' = IF status = 402 /\ call.autoRetry
                   THEN IF body = NoBody
                        THEN ClientThrew([call EXCEPT !.first = status],
                                         "402 response missing payment challenge")
                        ELSE [call EXCEPT !.pc = "pay", !.first = status, !.text = body]
                   ELSE [call EXCEPT !.pc = "returned", !.first = status,
                                     !.result = status]
    /\ TxUnchanged
\* this.pay(challengeString) up to the transfer it submits: parse, getNonce,
\* executePayment
ClientPayOn(c, balance, nonceReply, txHash) ==
    LET parsed == parse(c.text)
        challenge == parsed.challenge
        ran == [c EXCEPT !.challenge = challenge, !.balance = balance,
                         !.payRan = TRUE]
        paid == executePayment(challenge, balance)
    IN IF ~parsed.ok THEN ClientThrew(c, parsed.error)
       ELSE IF ~challenge.hasNonce /\ c.verifier /\ nonceReply = "rejects"
       THEN ClientThrew([c EXCEPT !.challenge = challenge], "getNonce failed")
       ELSE IF ~paid.ok THEN ClientThrew(ran, paid.error)
       ELSE IF ~IsAddress(challenge.recipient)
       THEN ClientThrew(ran, "invalid address")
       ELSE IF txHash = "" THEN ClientThrew(ran, "transfer failed")
       ELSE [ran EXCEPT !.pc = "awaitReceipt", !.transfers = c.transfers + 1,
                        !.tx = txHash]
ClientPay ==
    /\ call.pc = "pay"
    /\ \E balance \in ClientBalances, nonceReply \in {"resolves", "rejects"},
          txHash \in ClientTransfers :
         call' = ClientPayOn(call, balance, nonceReply, txHash)
    /\ TxUnchanged
\* the proof pay() returns for the transfer: signed by the client's wallet
\* at Math.floor(Date.now() / 1000)
ClientProof(c) == pay(c.challenge, c.tx, Now, "payer")
\* a client that does not wait for the receipt before it signs and retries
ClientReceiptOptimistic ==
    /\ call.pc = "awaitReceipt"
    /\ \E mined \in BOOLEAN :
         call' = [call EXCEPT !.pc = "awaitRetry", !.proofs = call.proofs + 1,
                              !.sent = call.sent + 1, !.attached = TRUE,
                              !.confirmed = mined, !.header = ClientProof(call)]
    /\ TxUnchanged
\* await tx.wait(), then sign, encode and send the retry with X-Payment-Proof
ClientReceipt ==
    /\ call.pc = "awaitReceipt"
    /\ \E mined \in BOOLEAN :
         call' = IF mined
                 THEN [call EXCEPT !.pc = "awaitRetry", !.proofs = call.proofs + 1,
                                   !.sent = call.sent + 1, !.attached = TRUE,
                                   !.confirmed = TRUE, !.header = ClientProof(call)]
                 ELSE ClientThrew(call, "transaction failed")
    /\ TxUnchanged
\* a retry loop: a 402 on the retry is paid for again
ClientRetryResponseLoops ==
    /\ call.pc = "awaitRetry"
    /\ call.sent < 3
    /\ \E status \in ClientStatuses :
         call' = IF status = 402
                 THEN [call EXCEPT !.pc = "pay", !.retry = status]
                 ELSE [call EXCEPT !.pc = "returned", !.retry = status,
                                   !.result = status]
    /\ TxUnchanged
\* the response of the retry arrives and is returned
ClientRetryResponse ==
    /\ call.pc = "awaitRetry"
    /\ \E status \in ClientStatuses :
         call' = [call EXCEPT !.pc = "returned", !.retry = status, !.result = status]
    /\ TxUnchanged
NextClient ==
    \/ ClientRequest
    \/ ClientFirstResponse
    \/ ClientPay
    \/ ClientReceipt
    \/ ClientRetryResponse
SpecClient == InitClient /\ [][NextClient]_vars

\* ------------------------------------------------------ signature binding
\* A proof is signed, encoded and decoded; one field of the decoded object
\* may then be assigned another value before verifyProofSignature runs.
BindInputs ==
    [txHash : {"tx1"}, challenge : CodecChallenges, nonce : {1, 2},
     timestamp : {TA, TB}, key : Keys]
BindFields == {"amount", "recipient", "timestamp", "nonce"}
\* the values a field is overwritten with: other numbers, another account,
\* the same account in another letter case, the same integer written with
\* a leading zero, a text that is no integer
BindValues(field) ==
    CASE field = "amount" ->
           {Dec(<<2, 0, 0, 0>>, << >>), Dec(<<1, 0, 0, 0>>, << >>),
            Dec(<<0, 1, 0, 0, 0>>, << >>), Dec(<<1>>, <<5>>)}
      [] field = "recipient" ->
           {Addr("merchant", "lower"), Addr("merchant", "checksum"),
            Addr("stranger", "checksum")}
      [] field = "timestamp" -> {TA, TA + 1}
      [] field = "nonce" -> {1, 3}
Assign(proof, field, value) ==
    CASE field = "amount" -> [proof EXCEPT !.amount = value]
      [] field = "recipient" -> [proof EXCEPT !.recipient = value]
      [] field = "timestamp" -> [proof EXCEPT !.timestamp = value]
      [] field = "nonce" -> [proof EXCEPT !.nonce = value]
FieldOf(proof, field) ==
    CASE field = "amount" -> proof.amount
      [] field = "recipient" -> proof.recipient
      [] field = "timestamp" -> proof.timestamp
      [] field = "nonce" -> proof.nonce
\* what verifyProofSignature(proof) gives: the recovered address, or the
\* error solidityPackedKeccak256 throws
Recovered(address) == [threw |-> FALSE, address |-> address]
RecoverThrew == [threw |-> TRUE, address |-> Addr(NoAccount, "checksum")]
InitBinding ==
    /\ cfg = Options(TRUE, TRUE, TRUE, TRUE, TRUE, TRUE)
    /\ clock = ClockStart
    /\ proofCache = << >>
    /\ req = [r \in Slots |-> IdleSlot]
    /\ last = [q |-> NoRequest, out |-> NoResponse]
    /\ granted = << >>
    /\ usedProofs = {}
    /\ nonces = << >>
    /\ codec = NoCodec
    /\ \E in \in BindInputs :
         LET decoded == decodeProof(ClientHeader(in.txHash, in.challenge, in.nonce,
                                                 in.timestamp, in.key)).proof
         IN call = [op |-> "bind", phase |-> "decoded", key |-> in.key,
                    signed |-> decoded, proof |-> decoded, changed |-> "none",
                    result |-> RecoverThrew]
\* decoded.amount = '2000', and the like
BindTamper ==
    /\ call.op = "bind" /\ call.phase = "decoded"
    /\ \E field \in BindFields :
         \E value \in BindValues(field) \ {FieldOf(call.proof, field)} :
           call' = [call EXCEPT !.phase = "tampered", !.changed = field,
                                !.proof = Assign(call.proof, field, value)]
    /\ TxUnchanged
\* const recoveredAddress = verifyProofSignature(decoded)
BindVerify ==
    /\ call.op = "bind" /\ call.phase \in {"decoded", "tampered"}
    /\ call' = [call EXCEPT
                  !.phase = "verified",
                  !.result = IF CanHash(call.proof)
                             THEN Recovered(verifyProofSignature(call.proof))
                             ELSE RecoverThrew]
    /\ TxUnchanged
NextBinding == BindTamper \/ BindVerify
SpecBinding == InitBinding /\ [][NextBinding]_vars

\* ---------------------------------------- standalone middleware variants
\* createPaymentMiddleware of src/unnamed/part_000 ("routes": a route table
\* of challenge strings) and of src/402hub-api/middleware-standalone.js
\* ("header": four payment headers and a price).  A handler is one step; the
\* provider's answer to its getTransaction is an input of the step.
Seg(text) == [text |-> text, param |-> FALSE]
Param(name) == [text |-> name, param |-> TRUE]
\* matchRoute(pattern, path): same number of parts, each a ':name' or equal
matchRoute(pattern, path) ==
    /\ Len(pattern) = Len(path)
    /\ \A i \in 1..Len(pattern) : pattern[i].param \/ pattern[i] = path[i]
PaidText ==
    ChallengeString(<<Str("usdc", "lower"), Str("base_sepolia", "lower"),
                      Addr("merchant", "lower")>>,
                    TRUE, Dec(<<0>>, <<0, 0, 1>>), FALSE, 0)
BrokenText ==
    ChallengeString(<<Str("usdc", "lower"), Str("base_sepolia", "lower"),
                      Addr("merchant", "badchecksum")>>,
                    TRUE, Dec(<<0>>, <<0, 0, 1>>), FALSE, 0)
\* options.routes, in the order of Object.entries
\* the challenge of '/service/special', to another recipient
SpecialText ==
    ChallengeString(<<Str("usdc", "lower"), Str("base_sepolia", "lower"),
                      Addr("other", "lower")>>,
                    TRUE, Dec(<<0>>, <<0, 0, 1>>), FALSE, 0)
StandaloneRoutes ==
    <<[pattern |-> <<Seg("paid")>>, challenge |-> PaidText],
      [pattern |-> <<Seg("broken")>>, challenge |-> BrokenText],
      [pattern |-> <<Seg("service"), Param("id")>>, challenge |-> PaidText],
      [pattern |-> <<Seg("service"), Seg("special")>>, challenge |-> SpecialText]>>
FreePath == <<Seg("free")>>
SpecialPath == <<Seg("service"), Seg("special")>>
StandalonePaths ==
    {<<Seg("paid")>>, FreePath, <<Seg("broken")>>, <<Seg("service"), Seg("7")>>,
     SpecialPath, <<Seg("service"), Seg("7"), Seg("edit")>>}
\* a lookup that takes the first entry that matches, exact or not
Standalone_challengeForFirstMatch(routes, path) ==
    IF \E i \in 1..Len(routes) : matchRoute(routes[i].pattern, path)
    THEN routes[CHOOSE i \in 1..Len(routes) :
                  /\ matchRoute(routes[i].pattern, path)
                  /\ \A j \in 1..(i - 1) : ~matchRoute(routes[j].pattern, path)].challenge
    ELSE NoBody
\* a lookup that falls back to the first route
Standalone_challengeForDefault(routes, path) ==
    IF \E i \in 1..Len(routes) : matchRoute(routes[i].pattern, path)
    THEN routes[CHOOSE i \in 1..Len(routes) :
                  /\ matchRoute(routes[i].pattern, path)
                  /\ \A j \in 1..(i - 1) : ~matchRoute(routes[j].pattern, path)].challenge
    ELSE routes[1].challenge
\* the challenge string of the route: the exact entry, else the first
\* pattern that matches, else null
Standalone_challengeFor(routes, path) ==
    IF \E i \in 1..Len(routes) : routes[i].pattern = path
    THEN routes[CHOOSE i \in 1..Len(routes) : routes[i].pattern = path].challenge
    ELSE IF \E i \in 1..Len(routes) : matchRoute(routes[i].pattern, path)
    THEN routes[CHOOSE i \in 1..Len(routes) :
                  /\ matchRoute(routes[i].pattern, path)
                  /\ \A j \in 1..(i - 1) : ~matchRoute(routes[j].pattern, path)].challenge
    ELSE NoBody
\* decodeProof of part_000: JSON.parse, no check of the fields
Standalone_decodeProof(proofHeader) ==
    LET decoded == FromBase64(proofHeader)
    IN IF ~decoded.json
       THEN [ok |-> FALSE, proof |-> JsonParse(NotJson)]
       ELSE [ok |-> TRUE, proof |-> JsonParse(decoded)]
\* `x402:${txHash}:${recipient}:${amount}:${nonce}`
Standalone_message(proof) ==
    [txHash |-> proof.txHash, recipient |-> proof.recipient,
     amount |-> proof.amount, nonce |-> proof.nonce]
\* verifyProofSignature of part_000: ethers.verifyMessage over that text
Standalone_verifyProofSignature(proof) ==
    RecoverAddress(Standalone_message(proof), proof.signature)
\* parseFloat(a) < parseFloat(b) on decimal texts
ParseFloatLess(a, b) ==
    DigitsLess(ParseUnitsDigits(a, UsdcDecimals), ParseUnitsDigits(b, UsdcDecimals))
\* how a handler ends: a response or next(), or an error thrown out of it;
\* asked: the handler called the provider
HandlerThrew(error) == [status |-> 0, error |-> error, message |-> "threw"]
Outcome(out, asked) == [out |-> out, asked |-> asked, challenge |-> NoBody]
\* the transactions the provider may know, a failed call, and null
StandaloneReplies ==
    {NoTx, ProviderError,
     TransferTx(7, 1, Addr("usdc_base_sepolia", "checksum"),
                Addr("merchant", "checksum"), 1000),
     TransferTx(7, 1, Addr("usdc_base_sepolia", "checksum"),
                Addr("other", "checksum"), 1000),
     [NoTx EXCEPT !.found = TRUE, !.blockNumber = 7, !.status = 1,
                  !.to = Addr("merchant", "checksum"), !.value = <<1, 0, 0, 0>>],
     [NoTx EXCEPT !.found = TRUE, !.blockNumber = 7, !.status = 0,
                  !.to = Addr("merchant", "checksum"), !.value = <<1, 0, 0, 0>>],
     [NoTx EXCEPT !.found = TRUE, !.blockNumber = 7, !.status = 1,
                  !.to = Addr("merchant", "checksum"), !.value = <<9, 9, 9>>],
     [NoTx EXCEPT !.found = TRUE, !.blockNumber = 7, !.status = 1]}
RoutesRequests ==
    [path : {<<Seg("paid")>>}, hdr : 0..Len(Headers)]
        \cup [path : StandalonePaths \ {<<Seg("paid")>>}, hdr : 0..1]
\* paymentMiddleware of part_000 on a request, the provider answering tx.
\* The signer it recovers is logged and stored in req.paymentSigner (signerOf
\* below) and compared with nothing; every signature of Headers is well
\* formed, so verifyMessage does not throw.
Standalone_signerOf(q) ==
    Standalone_verifyProofSignature(Standalone_decodeProof(Headers[q.hdr]).proof)
Standalone_paymentMiddleware(verifyTransaction, q, tx, dateNow) ==
    LET challengeString == Standalone_challengeFor(StandaloneRoutes, q.path)
        parsed == Standalone_parseChallenge(challengeString, dateNow)
        challenge == parsed.challenge
        decoded == Standalone_decodeProof(Headers[q.hdr])
        proof == decoded.proof
        tokenAddress == Standalone_getTokenAddress(challenge.chain, challenge.token)
        txValid == Standalone_verifyPaymentTransaction(
                       tx, challenge.recipient, challenge.amount, tokenAddress)
    IN IF challengeString = NoBody THEN Outcome(NextCalled, FALSE)
       ELSE IF ~parsed.ok THEN Outcome(HandlerThrew(parsed.error), FALSE)
       ELSE IF q.hdr = 0
       THEN [Outcome(Json(402, "Payment Required",
                          "Please pay and provide proof in X-Payment-Proof header"),
                     FALSE) EXCEPT !.challenge = challengeString]
       ELSE IF ~decoded.ok
       THEN Outcome(Json(403, "Payment verification failed", "Invalid proof format"),
                    FALSE)
       ELSE IF \/ Falsy(proof, "txHash") \/ Falsy(proof, "signature")
               \/ Falsy(proof, "recipient") \/ Falsy(proof, "amount")
       THEN Outcome(Json(403, "Invalid proof format",
                         "Proof must contain txHash, signature, recipient, and amount"),
                    FALSE)
       ELSE IF ToLowerCase(proof.recipient) # ToLowerCase(challenge.recipient)
       THEN Outcome(Json(403, "Payment recipient mismatch", ""), FALSE)
       ELSE IF ParseFloatLess(proof.amount, challenge.amount)
       THEN Outcome(Json(403, "Insufficient payment amount", ""), FALSE)
       ELSE IF verifyTransaction /\ ~txValid.ok
       THEN Outcome(Json(403, "Payment verification failed", txValid.error), TRUE)
       ELSE Outcome(NextCalled, verifyTransaction)

\* the header variant: options.wallet.address and options.price (wei)
WalletAddress == Addr("merchant", "checksum")
Price == 1000
NoHeader == Str("", "lower")
HeaderRequests ==
    [proof : {"", "signature", "malformed"},
     to : {NoHeader, Addr("merchant", "lower"), Addr("other", "checksum")},
     amount : {Dec(<<>>, <<>>), Dec(<<9, 9, 9>>, << >>), Dec(<<1, 0, 0, 0>>, << >>),
               Dec(<<1>>, <<5>>)},
     txHash : {"", "tx1"}]
\* paymentMiddleware of middleware-standalone.js on a request
Header_paymentMiddleware(verifyOnChain, q, tx) ==
    IF q.proof = "" \/ q.to = NoHeader \/ q.amount = Dec(<<>>, <<>>) \/ q.txHash = ""
    THEN Outcome(Json(402, "Payment Required", "This endpoint requires payment"),
                 FALSE)
    ELSE IF ToLowerCase(q.to) # ToLowerCase(WalletAddress)
    THEN Outcome(Json(403, "Invalid payment recipient", ""), FALSE)
    ELSE IF ~IsIntegerString(q.amount)
    THEN Outcome(HandlerThrew("SyntaxError: Cannot convert to a BigInt"), FALSE)
    ELSE IF GetBigInt(q.amount) < Price
    THEN Outcome(Json(403, "Insufficient payment", ""), FALSE)
    ELSE IF verifyOnChain
    THEN IF tx.threw
         THEN Outcome(Json(500, "Payment verification failed", "provider error"), TRUE)
         ELSE IF ~tx.found
         THEN Outcome(Json(403, "Transaction not found", ""), TRUE)
         ELSE IF tx.to = NullAddr
         THEN Outcome(Json(500, "Payment verification failed", "TypeError"), TRUE)
         ELSE IF ToLowerCase(tx.to) # ToLowerCase(WalletAddress)
         THEN Outcome(Json(403, "Transaction recipient mismatch", ""), TRUE)
         ELSE IF DigitsLess(tx.value, IntToDigits(Price))
         THEN Outcome(Json(403, "Transaction amount insufficient", ""), TRUE)
         ELSE IF tx.status = 0
         THEN Outcome(Json(403, "Transaction failed", ""), TRUE)
         ELSE Outcome(NextCalled, TRUE)
    ELSE IF q.proof = "malformed"
    THEN Outcome(Json(403, "Invalid payment proof", ""), FALSE)
    ELSE Outcome(NextCalled, FALSE)

\* the requests granted so far, each with the number of its grants
GrantsOf(grants, q) == IF q \in DOMAIN grants THEN grants[q] ELSE 0
GrantsAfter(grants, q) ==
    [x \in DOMAIN grants \cup {q} |-> IF x = q THEN GrantsOf(grants, q) + 1
                                      ELSE grants[x]]
Handled(c, q, outcome, carriesProof) ==
    [c EXCEPT !.last = [q |-> q, out |-> outcome.out, asked |-> outcome.asked,
                        challenge |-> outcome.challenge],
              !.grants = IF outcome.out = NextCalled /\ carriesProof
                         THEN GrantsAfter(c.grants, q) ELSE c.grants,
              !.total = IF outcome.out = NextCalled /\ carriesProof
                        THEN c.total + 1 ELSE c.total]
InitStandalone ==
    /\ cfg = Options(TRUE, TRUE, TRUE, TRUE, TRUE, TRUE)
    /\ clock = ClockStart
    /\ proofCache = << >>
    /\ req = [r \in Slots |-> IdleSlot]
    /\ last = [q |-> NoRequest, out |-> NoResponse]
    /\ granted = << >>
    /\ usedProofs = {}
    /\ nonces = << >>
    /\ codec = NoCodec
    /\ \E variant \in {"routes", "header"}, verify \in BOOLEAN :
         call = [op |-> "standalone", variant |-> variant, verify |-> verify,
                 grants |-> << >>, total |-> 0,
                 last |-> [q |-> [path |-> << >>, hdr |-> 0], out |-> NoResponse,
                           asked |-> FALSE, challenge |-> NoBody]]
\* a request reaches the routes variant and is answered
RoutesHandle ==
    /\ call.op = "standalone" /\ call.variant = "routes"
    /\ call.total < MaxGrants
    /\ \E q \in RoutesRequests :
         \E tx \in IF call.verify THEN StandaloneReplies ELSE {NoTx} :
           call' = Handled(call, q,
                           Standalone_paymentMiddleware(call.verify, q, tx, clock),
                           q.hdr # 0 /\ q.path # FreePath)
    /\ TxUnchanged
\* a request reaches the header variant and is answered
HeaderHandle ==
    /\ call.op = "standalone" /\ call.variant = "header"
    /\ call.total < MaxGrants
    /\ \E q \in HeaderRequests :
         \E tx \in IF call.verify THEN StandaloneReplies ELSE {NoTx} :
           call' = Handled(call, q, Header_paymentMiddleware(call.verify, q, tx), TRUE)
    /\ TxUnchanged
NextStandalone == RoutesHandle \/ HeaderHandle
SpecStandalone == InitStandalone /\ [][NextStandalone]_vars

\* Either middleware: the instance of src/src/middleware.js handling one
\* request at a time, or a standalone variant.
InitVariants == Init \/ InitStandalone
NextVariants == (call = NoCall /\ NextSeq) \/ NextStandalone
SpecVariants == InitVariants /\ [][NextVariants]_vars

\* ------------------------------------------------------ two proofs
\* Two proofs of the same payer with different hashes (nonces 1 and 2) are
\* presented, in any order and interleaving, at a time when both are fresh;
\* the payer's nonce on the contract is 1.
PairRequests == {[path |-> "/paid", hdr |-> 1], [path |-> "/paid", hdr |-> 2]}
PairClock == (TA + FreshnessPast) * 1000 + 999
PairNonces == [who \in {"payer"} |-> 1]
InitPair ==
    /\ cfg \in Configs
    /\ clock = PairClock
    /\ proofCache = << >>
    /\ req = [r \in Slots |-> IdleSlot]
    /\ last = [q |-> NoRequest, out |-> NoResponse]
    /\ granted = << >>
    /\ usedProofs = {}
    /\ nonces = PairNonces
    /\ codec = NoCodec
    /\ call = NoCall
NextPair ==
    \/ \E r \in Slots, q \in PairRequests : Receive(r, q)
    \/ \E r \in Slots : AfterTransaction(r)
    \/ \E r \in Slots : AfterOnChain(r)
    \/ \E r \in Slots : AfterMarkUsed(r)
SpecPair == InitPair /\ [][NextPair]_vars
\* whether the request can be granted when no other request is made
GrantedAlone(q) ==
    /\ Decoded[q.hdr].ok /\ CanHash(ProofOf(q))
    /\ Fresh(ProofOf(q).timestamp, PairClock \div 1000)
    /\ TxStep => verifyPaymentTransaction(ProofOf(q))
    /\ ChainStep => verifyPaymentProof({}, PairNonces, PairClock \div 1000, ProofOf(q))

\* ================================================================ claims
\* the challenge the server has configured for the paid route
ServerChallenge == Challenge
HeaderIndex(header) == CHOOSE i \in 1..Len(Headers) : Headers[i] = header
Paid(header) == [path |-> "/paid", hdr |-> HeaderIndex(header)]
\* the last answer was next() for a request that presented a proof
LastGranted == last.out = NextCalled /\ last.q.path = "/paid" /\ last.q.hdr # 0
AlreadyUsed ==
    Json(403, "Payment proof already used",
         "This payment proof has been used already. Please make a new payment.")
Expired == Json(403, "Payment proof expired or invalid timestamp", "")
InvalidFormat == Json(403, "Invalid payment proof", "Invalid proof format")

\* C1: over requests handled one after another by one middleware instance,
\* a proof (one canonical hash) is granted at most once.
C1_GrantedAtMostOnceSequential == \A h \in DOMAIN granted : granted[h] <= 1
\* a proof was granted, its cache entry was swept by a later grant, and its
\* second presentation was denied as expired
C1_Witness ==
    /\ last = [q |-> Paid(HeaderA), out |-> Expired]
    /\ GrantCount(HashOf(Paid(HeaderA))) = 1
    /\ ~isProofUsedInCache(proofCache, HashOf(Paid(HeaderA)))

\* C2: also when requests with the identical proof are in flight together,
\* the request that was just granted holds the only grant of its proof.
C2_OneGrantUnderConcurrency ==
    LastGranted => GrantCount(HashOf(last.q)) = 1

\* C3: the proof the client flow builds with the default nonce 0 passes the
\* synchronous stages on its first presentation (it is granted or goes on to
\* the chain steps), and is denied as already used once it is in the cache.
C3_ClientProofGrantedThenUsed ==
    [][\A r \in Slots :
         (/\ Fresh(TA, Now)
          /\ Receive(r, Paid(HeaderNonce0)))
         => IF isProofUsedInCache(proofCache, getProofHash("tx1", Challenge, 0, TA))
            THEN last' = [q |-> Paid(HeaderNonce0), out |-> AlreadyUsed]
            ELSE \/ req'[r].pc \in {"awaitTx", "awaitChain"}
                 \/ last' = [q |-> Paid(HeaderNonce0), out |-> NextCalled]]_vars

\* C4: a granted proof was signed over the fields it presents: the signer
\* recovered from it is the key that made the signature.
C4_ForgedProofNeverGranted ==
    LastGranted =>
        verifyProofSignature(ProofOf(last.q)).who = ProofOf(last.q).signature.key

\* C5: a granted proof names the recipient of the route's challenge, letter
\* case aside.
C5_GrantedRecipientMatchesChallenge ==
    LastGranted =>
        ToLowerCase(ProofOf(last.q).recipient) = ToLowerCase(ServerChallenge.recipient)

\* C6: a granted proof's amount, in token minor units, is at least the
\* amount of the route's challenge.
C6_GrantedAmountCoversChallenge ==
    LastGranted =>
        GetBigInt(ProofOf(last.q).amount) >= ParseUnits(ServerChallenge.amount, UsdcDecimals)

\* C7: a proof that reaches the freshness check is denied as expired exactly
\* when its timestamp is outside now - 300 .. now + 60.
C7_FreshnessWindow ==
    [][\A r \in Slots : \A q \in {last'.q, req'[r].q} :
         (/\ q.path = "/paid" /\ q.hdr # 0
          /\ Decoded[q.hdr].ok /\ CanHash(ProofOf(q))
          /\ ~isProofUsedInCache(proofCache, HashOf(q))
          /\ Receive(r, q))
         => ((req'[r].pc = "idle" /\ last' = [q |-> q, out |-> Expired])
               <=> ~(Now - 300 <= ProofOf(q).timestamp
                       /\ ProofOf(q).timestamp <= Now + 60))]_vars
\* a proof dated exactly 300 s ago was granted
C7_Witness ==
    /\ last = [q |-> Paid(HeaderA), out |-> NextCalled]
    /\ ~TxStep /\ ~ChainStep
    /\ ProofOf(last.q).timestamp = Now - 300

\* C8: decodeProof(encode(fields, signature)) succeeds and returns the seven
\* values that were encoded, for every nonce and timestamp >= 0.
C8_RoundTrip ==
    codec.phase = "decoded" =>
        /\ codec.result.ok
        /\ codec.result.proof =
             ProofObject(RequiredSet, codec.in.txHash,
                         getTokenAddress(codec.in.challenge),
                         codec.in.challenge.recipient,
                         BigIntToString(getAmountWei(codec.in.challenge)),
                         codec.in.timestamp, codec.in.nonce,
                         sign(codec.in.txHash, codec.in.challenge, codec.in.nonce,
                              codec.in.timestamp, codec.in.key))

\* C9: a proof header that is not decodable, or lacks a required field, is
\* answered 403 'Invalid proof format' in the arrival step itself, with no
\* await started and proofCache, the grants and the contract left as they were.
LacksField(header) ==
    ~header.b64.json \/ \E f \in RequiredSet : f \notin header.b64.keys
C9_MalformedProofDenied ==
    [][\A r \in Slots : \A q \in {last'.q, req'[r].q} :
         (/\ q.path = "/paid" /\ q.hdr # 0
          /\ LacksField(HeaderOf(q))
          /\ Receive(r, q))
         => /\ last' = [q |-> q, out |-> InvalidFormat]
            /\ req'[r].pc = "idle"
            /\ proofCache' = proofCache
            /\ granted' = granted
            /\ usedProofs' = usedProofs /\ nonces' = nonces]_vars
\* a proof without its signature was answered so while the cache held an entry
C9_Witness ==
    /\ last = [q |-> Paid(HeaderNoSig), out |-> InvalidFormat]
    /\ DOMAIN proofCache # {}

\* C10: with verifyTransaction enabled, a granted proof's transaction passed
\* the transaction check.
C10_GrantedImpliesTransactionVerified ==
    (LastGranted /\ cfg.verifyTransaction) =>
        verifyPaymentTransaction(ProofOf(last.q))

\* a confirmed, successful transaction was checked for a token payment
TxChecked(op) ==
    /\ call.op = op
    /\ call.tx.found /\ call.tx.blockNumber # 0 /\ call.tx.status = 1
\* the token contract the payment is expected on
TxToken(op) ==
    IF op = "main" THEN TxProof.token
    ELSE Standalone_getTokenAddress(call.chain, call.token)

\* C11: for a token payment, a transaction is accepted only if it is sent to
\* the token contract and its data is a transfer call to the expected
\* recipient; this holds for the verification of either middleware.
C11_AcceptedIsTransferToRecipient ==
    \A op \in {"main", "standalone"} :
        (call.op = op /\ TxToken(op) \notin {NullAddr, ZeroAddress} /\ call.result.ok)
        => /\ ToLowerCase(call.tx.to) = ToLowerCase(TxToken(op))
           /\ call.tx.selector = TransferSelector
           /\ ToLowerCase(call.tx.argTo) = ToLowerCase(Challenge.recipient)

\* a confirmed transfer call on the token contract to the expected recipient
IsTransferToRecipient(op) ==
    /\ TxChecked(op)
    /\ TxToken(op) \notin {NullAddr, ZeroAddress}
    /\ ToLowerCase(call.tx.to) = ToLowerCase(TxToken(op))
    /\ call.tx.selector = TransferSelector
    /\ ToLowerCase(call.tx.argTo) = ToLowerCase(Challenge.recipient)

\* C12: such a transfer is accepted when its amount is at least the expected
\* amount (1000 minor units here) and rejected only when it is smaller, by
\* the verification of either middleware.
C12_AcceptedIffAmountCovers ==
    \A op \in {"main", "standalone"} :
        IsTransferToRecipient(op)
        => (call.result.ok <=> call.tx.argAmount >= getAmountWei(Challenge))

\* C13: a transaction that is found but has no block number is not accepted
\* by the verification of either middleware.
C13_UnconfirmedNeverAccepted ==
    \A op \in {"main", "standalone"} :
        (call.op = op /\ call.tx.found /\ call.tx.blockNumber = 0)
        => ~call.result.ok

\* C14: for a (chain, token) pair that is not in the table, the server does
\* not check the transaction as a native transfer, and the client's
\* executePayment sends nothing.
C14_UnsupportedPairNotNative ==
    /\ (call.op = "standalone"
          /\ Standalone_getTokenAddress(call.chain, call.token) = NullAddr)
        => call.result.branch # "native"
    /\ (call.op = "executePayment"
          /\ getTokenAddress(ChallengeFor(call.chain, call.token)) = NullAddr)
        => ~call.result.ok

\* C15: when the on-chain check passed and the markProofUsed call then fails,
\* the request is granted all the same, the proof hash is recorded in
\* proofCache, and the contract is left as it was.
C15_MarkFailureStillGrants ==
    [][\A r \in Slots : \A reachable \in BOOLEAN :
         (/\ req[r].pc = "awaitMark"
          /\ ~(reachable /\ verifyPaymentProof(usedProofs, nonces, Now,
                                                ProofOf(req[r].q)))
          /\ AfterMarkUsedOn(r, reachable))
         => /\ last' = [q |-> req[r].q, out |-> NextCalled]
            /\ isProofUsedInCache(proofCache', HashOf(req[r].q))
            /\ HashOf(req[r].q) \in DOMAIN granted'
            /\ granted'[HashOf(req[r].q)] = GrantCount(HashOf(req[r].q)) + 1
            /\ usedProofs' = usedProofs /\ nonces' = nonces]_vars
\* a proof was granted by an instance that marks proofs used, and the
\* contract does not hold it
C15_Witness ==
    /\ ChainStep /\ MarkStep
    /\ last = [q |-> Paid(HeaderA), out |-> NextCalled]
    /\ isProofUsedInCache(proofCache, HashOf(last.q))
    /\ HashOf(last.q) \notin usedProofs

\* C20: when the provider or the contract cannot be reached during a
\* verification that the chain itself would have passed, the handler answers
\* with a 5xx status.
C20_InfrastructureFaultIs5xx ==
    [][\A r \in Slots :
         (\/ /\ req[r].pc = "awaitTx"
             /\ verifyPaymentTransaction(ProofOf(req[r].q))
             /\ AfterTransactionOn(r, ProviderError)
          \/ /\ req[r].pc = "awaitChain"
             /\ verifyPaymentProof(usedProofs, nonces, Now, ProofOf(req[r].q))
             /\ AfterOnChainOn(r, FALSE))
         => last'.out.status \in 500..599]_vars

\* C16: a markProofUsed call for a proof whose hash is already in usedProofs
\* reverts and writes nothing, and every step that writes the contract adds
\* exactly one hash that was not in usedProofs before.
C16_UsedProofRevertsOnMark ==
    [][/\ \A proof \in ContractProofs :
            (ProofHashOf(proof) \in usedProofs /\ ContractMark(proof))
            => /\ call'.result.threw
               /\ usedProofs' = usedProofs /\ nonces' = nonces
       /\ (usedProofs' # usedProofs \/ nonces' # nonces)
            => \E h \in usedProofs' \ usedProofs : usedProofs' = usedProofs \cup {h}
      ]_vars
\* a proof with the hash of a committed proof, signed by another key whose
\* counter matches its nonce, was refused
C16_Witness ==
    /\ call.op = "markProofUsed"
    /\ call.result = Rejected("Proof already used")
    /\ NonceAt(nonces, SignerOf(call.proof)) = call.proof.nonce

\* C17: every counter starts at 0 and changes only by +1, in a successful
\* markProofUsed of a proof whose recovered signer owns the counter and whose
\* nonce is the counter's value before the call.
C17_NonceCounterSequential ==
    /\ \A s \in Signers : NonceAt(nonces, s) = 0
    /\ [][\A s \in Signers :
             NonceAt(nonces', s) # NonceAt(nonces, s)
             => /\ NonceAt(nonces', s) = NonceAt(nonces, s) + 1
                /\ call'.op = "markProofUsed" /\ ~call'.result.threw
                /\ SignerOf(call'.proof) = s
                /\ call'.proof.nonce = NonceAt(nonces, s)
                /\ ProofHashOf(call'.proof) \in usedProofs' \ usedProofs]_vars
\* a signer committed the nonces 0 and 1 in turn
C17_Witness ==
    /\ NonceAt(nonces, "payer") = 2
    /\ call.op = "markProofUsed" /\ ~call.result.threw
    /\ call.proof.nonce = 1 /\ SignerOf(call.proof) = "payer"

\* C19: verifyProofOnChain resolves, without raising, to false for a proof
\* that is expired (chain time > timestamp + 300), too far in the future
\* (timestamp > chain time + 60), already used, or whose nonce is not the
\* signer's counter, and to true otherwise.
C19_OnChainVerdict ==
    [][\A proof \in ContractProofs :
         ContractVerify(proof)
         => /\ ~call'.result.threw
            /\ call'.result.value =
                 ~(\/ Now > proof.timestamp + 300
                   \/ proof.timestamp > Now + 60
                   \/ ProofHashOf(proof) \in usedProofs
                   \/ proof.nonce # NonceAt(nonces, SignerOf(proof)))]_vars
\* a proof dated exactly 300 s before chain time was reported valid, and a
\* used one invalid
C19_Witness ==
    /\ call.op = "verifyProofOnChain"
    /\ \/ /\ call.result = Resolved(TRUE)
          /\ Now = call.proof.timestamp + 300
       \/ /\ call.result = Resolved(FALSE)
          /\ ProofHashOf(call.proof) \in usedProofs
          /\ Now <= call.proof.timestamp + 300

\* C18: with verifyOnChain and markUsed enabled and requests handled one
\* after another, a proof that was granted and is marked used on the contract
\* is not granted again, by the same instance or by one started later with an
\* empty proofCache.
C18_MarkedProofNeverGrantedAgain ==
    [][\A h \in DOMAIN granted :
         (granted[h] >= 1 /\ h \in usedProofs) => granted'[h] = granted[h]]_vars
\* after a restart emptied proofCache, the replay of a granted and marked
\* proof was denied by the on-chain check
C18_Witness ==
    /\ proofCache = << >>
    /\ GrantCount(HashOf(Paid(HeaderA))) = 1
    /\ HashOf(Paid(HeaderA)) \in usedProofs
    /\ last = [q |-> Paid(HeaderA),
               out |-> Json(403, "Payment proof verification failed", "")]

\* C30: the checks apply in the order decode, signature recovery, freshness,
\* replay check, transaction, on-chain attestation; so a decodable proof that
\* is both outside the freshness window and present in proofCache is denied
\* as expired.
C30_ExpiredBeforeReplay ==
    [][\A r \in Slots : \A q \in {last'.q, req'[r].q} :
         (/\ q.path = "/paid" /\ q.hdr # 0
          /\ Decoded[q.hdr].ok /\ CanHash(ProofOf(q))
          /\ isProofUsedInCache(proofCache, HashOf(q))
          /\ ~(Now - 300 <= ProofOf(q).timestamp /\ ProofOf(q).timestamp <= Now + 60)
          /\ Receive(r, q))
         => last' = [q |-> q, out |-> Expired]]_vars

\* the parts of the text before '?' that are not empty
NonEmptyParts(path) == {i \in 1..Len(path) : path[i].who # ""}

\* C23: parsing a challenge string with fewer than three non-empty parts
\* before '?' fails, in the client and in the standalone middleware; no
\* challenge value is produced.
C23_TooFewPartsFails ==
    (call.op \in {"client", "standalone"}
       /\ Cardinality(NonEmptyParts(call.text.path)) < 3)
    => ~call.result.ok

\* C24: parsing a challenge with three non-empty parts whose recipient is
\* not a valid address fails, in the client and in the standalone middleware;
\* the invalid recipient is not stored in a challenge value.
C24_InvalidRecipientFails ==
    (call.op \in {"client", "standalone"}
       /\ Len(call.text.path) >= 3
       /\ Cardinality(NonEmptyParts(call.text.path)) >= 3
       /\ ~IsAddress(call.text.path[3]))
    => /\ ~call.result.ok
       /\ call.result.challenge.recipient # call.text.path[3]

\* C21: one call of X402Client.fetch sends at most two requests and submits
\* at most one transfer; the second request is sent only after a 402, one
\* transfer and one proof, and carries the proof; a call that returns after
\* a 402 with autoRetry on has paid once and retried once, and returns what
\* the retry returned, a 402 included.
C21_OnePaymentOneRetry ==
    call.op = "fetch" =>
      /\ call.sent <= 2 /\ call.transfers <= 1 /\ call.proofs <= 1
      /\ call.sent = 2 =>
            (call.first = 402 /\ call.transfers = 1 /\ call.proofs = 1
               /\ call.attached)
      /\ (call.pc = "returned" /\ call.first = 402 /\ call.autoRetry) =>
            (call.sent = 2 /\ call.transfers = 1 /\ call.result = call.retry)
C21_Witness ==
    /\ call.op = "fetch" /\ call.pc = "returned"
    /\ call.first = 402 /\ call.retry = 402 /\ call.result = 402
    /\ call.sent = 2 /\ call.transfers = 1

\* C22: when the token of the challenge resolves to no contract address or
\* the balance is below the amount, the payment throws with no transfer
\* submitted and no proof signed, and fetch throws without sending the retry.
C22_FailedPaymentSendsNothing ==
    (call.op = "fetch" /\ call.payRan
       /\ (\/ getTokenAddress(call.challenge) = NullAddr
           \/ call.balance < getAmountWei(call.challenge)))
    => /\ call.pc = "threw"
       /\ call.transfers = 0 /\ call.proofs = 0
       /\ call.sent = 1 /\ ~call.attached
C22_Witness ==
    /\ call.op = "fetch" /\ call.payRan /\ call.pc = "threw"
    /\ getTokenAddress(call.challenge) # NullAddr
    /\ IsAddress(call.challenge.recipient)
    /\ call.balance < getAmountWei(call.challenge)
    /\ call.sent = 1

\* verifyProofSignature returned the address of the key that signed
RecoversSigner ==
    ~call.result.threw /\ ToLowerCase(call.result.address).who = call.key
\* the changed field holds another value: another account, another integer
\* or no integer at all, another number
ValueChanged ==
    CASE call.changed = "recipient" -> call.proof.recipient.who # call.signed.recipient.who
      [] call.changed = "amount" ->
           \/ ~IsIntegerString(call.proof.amount)
           \/ GetBigInt(call.proof.amount) # GetBigInt(call.signed.amount)
      [] call.changed = "timestamp" -> call.proof.timestamp # call.signed.timestamp
      [] call.changed = "nonce" -> call.proof.nonce # call.signed.nonce
      [] OTHER -> FALSE

C28_AmountInMinorUnits ==
    codec.phase \in {"encoded", "decoded"} =>
      LET d == codec.in.challenge.amount
          scaled == DigitsToInt(d.ip \o d.fp \o Zeros(6 - Len(d.fp)))
      IN /\ Len(d.fp) <= 6
         /\ getAmountWei(codec.in.challenge) = scaled
         /\ FromBase64(codec.header).amount = Dec(IntToDigits(scaled), << >>)
         /\ d = Dec(<<0>>, <<0, 0, 1>>) => getAmountWei(codec.in.challenge) = 1000
C28_Witness ==
    /\ codec.phase = "encoded"
    /\ codec.in.challenge.amount = Dec(<<0>>, <<0, 0, 1>>)
    /\ FromBase64(codec.header).amount = Dec(<<1, 0, 0, 0>>, << >>)

\* C26: a standalone variant grants a request carrying a given proof at
\* most once; the identical request presented again is denied.
C26_StandaloneGrantsOnce ==
    call.op = "standalone" => \A q \in DOMAIN call.grants : call.grants[q] <= 1

\* C29: a handler of a standalone variant ends with a response or with
\* next(), never with an error thrown out of the handler.
C29_StandaloneNeverThrows ==
    call.op = "standalone" => call.last.out.message # "threw"

\* C27: a request whose path has no challenge configured is passed on by
\* next() at once, whether or not it carries a proof header: no await is
\* left pending, the provider and the contract are not called, and
\* proofCache, the grants and the contract's state stay as they were; in
\* src/src/middleware.js and in the routes variant alike.
C27_NoChallengePassThrough ==
    [][/\ \A r \in Slots : \A q \in {last'.q, req'[r].q} \cap Requests :
            (call = NoCall /\ ~getChallengeForRoute(q.path) /\ Receive(r, q))
            => /\ last' = [q |-> q, out |-> NextCalled]
               /\ req'[r] = IdleSlot
               /\ proofCache' = proofCache /\ granted' = granted
               /\ usedProofs' = usedProofs /\ nonces' = nonces
       /\ (call.op = "standalone" /\ call.variant = "routes"
              /\ call' # call /\ call'.last.q.path = FreePath)
            => /\ call'.last.out = NextCalled
               /\ ~call'.last.asked
               /\ call'.grants = call.grants
               /\ proofCache' = proofCache]_vars
C27_Witness ==
    /\ call.op = "standalone" /\ call.variant = "routes" /\ call.verify
    /\ call.last.q = [path |-> FreePath, hdr |-> 1]
    /\ call.last.out = NextCalled /\ ~call.last.asked

\* C31: a step that grants a proof leaves its hash in proofCache, recorded
\* at the time of the grant; an entry leaves proofCache only in a granting
\* step and only if it was recorded more than 600000 ms before that step; no
\* step changes the time an entry of another proof was recorded at.
C31_SweepKeepsInsertedAndRecent ==
    [][/\ \A h \in DOMAIN granted' :
            (h \notin DOMAIN granted \/ granted'[h] # granted[h])
            => (h \in DOMAIN proofCache' /\ proofCache'[h] = clock)
       /\ \A h \in DOMAIN proofCache :
            /\ h \notin DOMAIN proofCache'
                 => (granted' # granted /\ clock - proofCache[h] > 600000)
            /\ (h \in DOMAIN proofCache' /\ proofCache'[h] # proofCache[h])
                 => (h \in DOMAIN granted' /\ granted'[h] = GrantCount(h) + 1)]_vars
\* an entry exactly 600000 ms old survived the sweep of a later grant
C31_Witness ==
    \E h \in DOMAIN proofCache : \E g \in DOMAIN proofCache :
        /\ h # g /\ proofCache[g] = clock
        /\ clock - proofCache[h] = 600000

C33_DifferentProofsIndependent ==
    (last.q \in PairRequests /\ last.out = NextCalled) => GrantedAlone(last.q)

\* C34: a proof exists only for a transfer that was submitted and
\* confirmed, and carries the hash of that transfer; the retry is sent only
\* with that proof; when the payment ran and the transfer was not submitted
\* or not confirmed, fetch throws with no proof and no retry.
C34_ProofAfterConfirmation ==
    call.op = "fetch" =>
      /\ call.proofs > 0 =>
            /\ call.transfers = 1 /\ call.confirmed /\ call.tx # ""
            /\ FromBase64(call.header).json
            /\ FromBase64(call.header).txHash = call.tx
      /\ call.sent = 2 => (call.proofs = 1 /\ call.attached)
      /\ (call.payRan /\ call.pc \in {"threw", "returned"} /\ ~call.confirmed) =>
            (call.pc = "threw" /\ call.proofs = 0 /\ call.sent = 1 /\ ~call.attached)
\* the transfer was submitted and its confirmation failed
C34_Witness ==
    /\ call.op = "fetch" /\ call.pc = "threw"
    /\ call.transfers = 1 /\ call.tx = "tx2" /\ ~call.confirmed
    /\ call.proofs = 0 /\ call.sent = 1

\* the entry is a key of the table equal to the path
ExactKey(i, path) == StandaloneRoutes[i].pattern = path
\* the entry has as many segments as the path, and its segments that are no
\* parameters are equal to the path's
SegmentsAgree(i, path) ==
    /\ Len(StandaloneRoutes[i].pattern) = Len(path)
    /\ \A k \in 1..Len(path) :
          StandaloneRoutes[i].pattern[k].param
            \/ StandaloneRoutes[i].pattern[k].text = path[k].text

\* C35: the routes variant answers a request without proof with the
\* challenge of the table key equal to its path when there is one, also when
\* a pattern listed before that key matches; otherwise with the challenge of
\* an entry whose segments agree with the path; and it passes a request on
\* without a challenge only when no entry's segments agree with the path.
C35_ExactRouteFirst ==
    (call.op = "standalone" /\ call.variant = "routes"
       /\ call.last.q.path \in StandalonePaths /\ call.last.q.hdr = 0)
    => LET path == call.last.q.path
           routes == 1..Len(StandaloneRoutes)
       IN /\ call.last.out.status = 402 =>
                /\ \A i \in routes :
                     ExactKey(i, path) =>
                        call.last.challenge = StandaloneRoutes[i].challenge
                /\ \E i \in routes :
                     /\ SegmentsAgree(i, path)
                     /\ call.last.challenge = StandaloneRoutes[i].challenge
          /\ call.last.out = NextCalled =>
                \A i \in routes : ~SegmentsAgree(i, path)
          /\ (\E i \in routes : /\ ExactKey(i, path)
                                  /\ StandaloneRoutes[i].challenge # BrokenText) =>
                call.last.out.status = 402
\* '/service/special' was answered with its own challenge, not with the
\* challenge of '/service/:id' listed before it
C35_Witness ==
    /\ call.op = "standalone" /\ call.variant = "routes"
    /\ call.last.q = [path |-> SpecialPath, hdr |-> 0]
    /\ call.last.out.status = 402
    /\ call.last.challenge = SpecialText

\* the headers whose proof the middleware can decode and hash
Hashable == {i \in 1..Len(Headers) : Decoded[i].ok /\ CanHash(Decoded[i].proof)}

\* C36: with a clock that never goes back, a proof the middleware has
\* granted is at every later time either still in proofCache or no longer
\* fresh: the sweep never makes a granted proof presentable again.
C36_EvictedProofIsExpired ==
    \A i \in Hashable :
        LET h == ProofHashOf(Decoded[i].proof)
        IN GrantCount(h) > 0 =>
              \/ h \in DOMAIN proofCache
              \/ ~Fresh(Decoded[i].proof.timestamp, Now)
\* a granted proof has been swept from the cache
C36_Witness ==
    \E i \in Hashable :
        LET h == ProofHashOf(Decoded[i].proof)
        IN /\ GrantCount(h) > 0
           /\ h \notin DOMAIN proofCache
           /\ Decoded[i].proof.timestamp < Now - FreshnessPast

\* neither await of the handler runs under the configuration
NoAwaitConfigured ==
    /\ ~(cfg.verifyTransaction /\ cfg.provider)
    /\ ~(cfg.verifyOnChain /\ cfg.verifierContract)

\* C37: when neither the transaction step nor the on-chain step runs, a
\* handler never stops between its cache check and its cache insert: no
\* request is ever in flight, no proof is granted twice, and a request
\* denied as already used carries a proof that was granted exactly once.
C37_NoAwaitOneGrant ==
    NoAwaitConfigured =>
        /\ \A r \in Slots : req[r] = IdleSlot
        /\ \A h \in DOMAIN granted : granted[h] = 1
        /\ (last.out = AlreadyUsed => GrantCount(HashOf(last.q)) = 1)
\* both steps are enabled but neither provider nor contract is configured,
\* and a second presentation of a granted proof was denied
C37_Witness ==
    /\ cfg.verifyTransaction /\ ~cfg.provider
    /\ cfg.verifyOnChain /\ ~cfg.verifierContract
    /\ last.out = AlreadyUsed
    /\ GrantCount(HashOf(last.q)) = 1

\* C38: two proofs that name the same transaction and differ in timestamp
\* or nonce are never both granted by one middleware instance.
C38_OneGrantPerTransaction ==
    \A i, j \in Hashable :
        LET p == Decoded[i].proof
            q == Decoded[j].proof
        IN (/\ p.txHash = q.txHash
            /\ (p.timestamp # q.timestamp \/ p.nonce # q.nonce))
           => ~(GrantCount(ProofHashOf(p)) > 0 /\ GrantCount(ProofHashOf(q)) > 0)

\* C39: proofCache changes only on the grant path. A step in which a handler
\* answers 402 or 403 leaves proofCache as it was, no step without a grant
\* changes it, and the step of a grant ends in next() with the hash of the
\* granted proof in proofCache.
C39_CacheWrittenOnlyOnGrant ==
    [][/\ (last'.out.status \in {402, 403} /\ (req' # req \/ last' # last))
            => proofCache' = proofCache
       /\ granted' = granted => proofCache' = proofCache
       /\ granted' # granted
            => /\ last'.out = NextCalled
               /\ last'.q.hdr # 0
               /\ HashOf(last'.q) \in DOMAIN proofCache'
               /\ granted'[HashOf(last'.q)] = GrantCount(HashOf(last'.q)) + 1]_vars
\* a request with a decodable proof was denied while other proofs were in the
\* cache, and its hash is not in the cache
C39_Witness ==
    /\ last.out.status = 403
    /\ last.q.hdr \in Hashable
    /\ DOMAIN proofCache # {}
    /\ HashOf(last.q) \notin DOMAIN proofCache
    /\ GrantCount(HashOf(last.q)) = 0

====
